---- MODULE Spec2Model ----
(***************************************************************************)
(* A model of the FileSystem abstraction of APrioriInvestments/filesystem: *)
(* the in-memory and disk backends and the wrappers built on them          *)
(* (WriteOnce, WriteProtected, Cloning, Cached).                           *)
(*                                                                         *)
(* A path is a sequence of tokens: a name or the separator "/".  A byte    *)
(* string is a sequence of numbers.  A node of a tree is a record          *)
(*   [kind, size, data, children]                                          *)
(* that is a file (data: its bytes) or a directory (children: a function   *)
(* from names to nodes).  An operation is an operator from the state it    *)
(* reads to a record that holds the state it leaves and exc, the exception *)
(* it raised ("none" when it returned).                                    *)
(*                                                                         *)
(* Every record constructor lists its fields in the order in which the     *)
(* field names first occur in this module, the order TLC keeps them in.    *)
(***************************************************************************)
EXTENDS Integers, Naturals, Sequences, FiniteSets

VARIABLES
    fs,      \* the tree of the backend under test / under a one-level wrapper
    front,   \* the tree of a composite's frontFileSystem
    back,    \* the tree of a composite's backFileSystem
    kinds,   \* [fs, front, back]: which backend ("mem" or "disk") holds each tree
    stream,  \* the caller's byte stream, as the last operation left it
    last,    \* the last operation: its name, arguments and outcome
    calls,   \* the stack of running calls of retry-wrapped functions
    threads, \* the position of each thread inside the operation it runs
    heap,    \* the node objects of InMemFileSystem.ROOT, by identity
    instances, \* the InMemFileSystem objects that share the heap
    remote   \* a remote server and the client's connection to it

vars == <<fs, front, back, kinds, stream, last, calls, threads, heap, instances, remote>>

-----------------------------------------------------------------------------
(* Bounds of the model *)

\* the longest path, in components
MaxDepth == 2
\* the most entries (files and directories) one tree holds
MaxNodes == 2
\* the longest byte string a caller writes
MaxLen == 2

\* FileSystem.sep
sep == "/"

Names == {"a", "b"}

\* the names used in the paths handed to a wrapper
ChainNames == {"a"}

\* the first n bytes of the callers' data 1, 2, 3, ...
Prefix(n) == SubSeq(<<1, 2, 3, 4, 5, 6, 7, 8>>, 1, n)

\* the byte strings callers write
Payloads == {Prefix(n) : n \in 0..MaxLen}

RECURSIVE VecsOver(_, _)
VecsOver(names, d) ==
    IF d = 0 THEN {<<>>}
    ELSE LET shorter == VecsOver(names, d - 1)
         IN  shorter \cup {<<n>> \o v : n \in names, v \in {w \in shorter : Len(w) = d - 1}}

RECURSIVE Render(_)
\* the path string of a vector of names: the names joined by the separator
Render(vec) ==
    IF vec = <<>> THEN <<>>
    ELSE IF Len(vec) = 1 THEN vec
    ELSE <<Head(vec), sep>> \o Render(Tail(vec))

\* a path string as callers may spell it: with or without leading and
\* trailing separators
Spellings(vec) ==
    {(IF lead THEN <<sep>> ELSE <<>>) \o Render(vec) \o (IF trail THEN <<sep>> ELSE <<>>) :
        lead \in BOOLEAN, trail \in BOOLEAN}

\* the paths handed to a single backend: every vector of names, and the root
\* and one name in every spelling
Paths ==
    {Render(v) : v \in VecsOver(Names, MaxDepth)}
        \cup UNION {Spellings(v) : v \in VecsOver(ChainNames, 1)}

\* the paths handed to a wrapper: the root, a, a/a, ...
ChainPaths == {Render(v) : v \in VecsOver(ChainNames, MaxDepth)}

\* the paths handed to a composite of two trees: the root, a and a/a
PairPaths == {<<>>, <<"a">>, <<"a", sep, "a">>}

-----------------------------------------------------------------------------
(* Byte streams (io.BytesIO, pipes) *)

\* data[pos:] of a byte string
From(data, pos) == SubSeq(data, pos + 1, Len(data))

\* io.BytesIO.write at position pos: overwrite, extend, never truncate
WriteAt(data, pos, bytes) ==
    SubSeq(data, 1, pos) \o bytes \o From(data, pos + Len(bytes))

\* stream.read(): the rest of the stream, leaving the position at the end
StreamRead(s) == [stream |-> [s EXCEPT !.pos = Len(s.data)],
                  ret |-> From(s.data, s.pos)]

\* stream.write(bytes)
StreamWrite(s, bytes) ==
    [s EXCEPT !.data = WriteAt(s.data, s.pos, bytes), !.pos = s.pos + Len(bytes)]

\* stream.seek(pos)
StreamSeek(s, pos) == [s EXCEPT !.pos = pos]

NoStream == [data |-> <<>>, pos |-> 0, seekable |-> TRUE]

\* the streams callers pass: some data, a position in it, seekable or not
Streams ==
    {s \in [data : Payloads, pos : 0..MaxLen, seekable : BOOLEAN] : s.pos <= Len(s.data)}

-----------------------------------------------------------------------------
(* Paths: filesystem_interface.py *)

RECURSIVE LStrip(_)
LStrip(path) == IF path # <<>> /\ Head(path) = sep THEN LStrip(Tail(path)) ELSE path

RECURSIVE RStrip(_)
RStrip(path) ==
    IF path # <<>> /\ path[Len(path)] = sep THEN RStrip(SubSeq(path, 1, Len(path) - 1))
    ELSE path

\* FileSystem._stripSeps
StripSeps(path) == RStrip(LStrip(path))

RECURSIVE SplitOnSep(_)
\* str.split(sep) followed by the removal of the empty pieces
SplitOnSep(path) ==
    IF path = <<>> THEN <<>>
    ELSE IF Head(path) = sep THEN SplitOnSep(Tail(path))
    ELSE <<Head(path)>> \o SplitOnSep(Tail(path))

\* FileSystem._normalizePath, for paths of names and separators
NormalizePath(path) == Render(SplitOnSep(StripSeps(path)))

\* FileSystem.splitPath
SplitPath(path) == SplitOnSep(NormalizePath(path))

\* pathVec[:-1]
ButLast(vec) == IF vec = <<>> THEN <<>> ELSE SubSeq(vec, 1, Len(vec) - 1)

-----------------------------------------------------------------------------
(* Trees: inmem_filesystem.py, _Metadata *)

EmptyMap == [n \in {} |-> 0]

DirSize == 4096

\* _Metadata._newDir
NewDir == [data |-> <<>>, children |-> EmptyMap, kind |-> "DIR", size |-> DirSize]

\* a _newFile that records the size of a directory
NewFileDirSize(data) ==
    [data |-> data, children |-> EmptyMap, kind |-> "FILE", size |-> DirSize]

\* _Metadata._newFile
NewFile(data) == [data |-> data, children |-> EmptyMap, kind |-> "FILE",
                  size |-> Len(data)]

\* contents[name] = node
Put(map, name, node) == [n \in DOMAIN map \cup {name} |-> IF n = name THEN node ELSE map[n]]

\* del contents[name]
Del(map, name) == [n \in DOMAIN map \ {name} |-> map[n]]

RECURSIVE NodeCount(_)
\* the entries below a node
NodeCount(node) ==
    LET RECURSIVE Sum(_)
        Sum(S) == IF S = {} THEN 0
                  ELSE LET n == CHOOSE x \in S : TRUE
                       IN  1 + NodeCount(node.children[n]) + Sum(S \ {n})
    IN  Sum(DOMAIN node.children)

RECURSIVE WalkTo(_, _, _)
\* InMemFileSystem._walkTo from a node: exc, the node reached (meta) and the
\* node walked from as the walk leaves it (tree: createAsWeGo adds directories)
WalkTo(node, pathVec, createAsWeGo) ==
    IF pathVec = <<>> THEN [exc |-> "none", meta |-> node, tree |-> node]
    ELSE IF node.kind # "DIR" THEN [exc |-> "OSError", meta |-> node, tree |-> node]
    ELSE LET segment == Head(pathVec) IN
         IF segment \notin DOMAIN node.children /\ ~createAsWeGo
         THEN [exc |-> "OSError", meta |-> node, tree |-> node]
         ELSE LET child == IF segment \in DOMAIN node.children
                           THEN node.children[segment] ELSE NewDir
                  rest == WalkTo(child, Tail(pathVec), createAsWeGo)
              IN  [exc |-> rest.exc, meta |-> rest.meta,
                   tree |-> [node EXCEPT !.children = Put(@, segment, rest.tree)]]

RECURSIVE Replace(_, _, _)
\* the tree with the node at pathVec replaced (the walk to it has succeeded)
Replace(node, pathVec, new) ==
    IF pathVec = <<>> THEN new
    ELSE [node EXCEPT !.children =
             Put(@, Head(pathVec), Replace(node.children[Head(pathVec)], Tail(pathVec), new))]

-----------------------------------------------------------------------------
(* InMemFileSystem: inmem_filesystem.py *)

Raise(root, s, exc) == [stream |-> s, ret |-> <<>>, exc |-> exc, tree |-> root]

Return(root, s, ret) == [stream |-> s, ret |-> ret, exc |-> "none", tree |-> root]

\* the content argument of set: bytes, or a byte stream
Bytes(data) == [data |-> data, pos |-> 0, seekable |-> FALSE, type |-> "bytes"]

AsContent(s) == [data |-> s.data, pos |-> s.pos, seekable |-> s.seekable,
                 type |-> "stream"]

AsStream(content) ==
    [data |-> content.data, pos |-> content.pos, seekable |-> content.seekable]

InMemExists(root, path) == WalkTo(root, SplitPath(path), FALSE).exc = "none"

InMemIsdir(root, path) ==
    LET walk == WalkTo(root, SplitPath(path), FALSE)
    IN  walk.exc = "none" /\ walk.meta.kind = "DIR"

InMemIsfile(root, path) ==
    LET walk == WalkTo(root, SplitPath(path), FALSE)
    IN  walk.exc = "none" /\ walk.meta.kind = "FILE"

InMemGetsize(root, path) ==
    LET walk == WalkTo(root, SplitPath(path), FALSE)
    IN  IF walk.exc # "none" THEN [ret |-> 0, exc |-> walk.exc]
        ELSE [ret |-> walk.meta.size, exc |-> "none"]

InMemGet(root, path) ==
    LET walk == WalkTo(root, SplitPath(path), FALSE)
    IN  IF walk.exc # "none" THEN [ret |-> <<>>, exc |-> walk.exc]
        ELSE IF walk.meta.kind # "FILE" THEN [ret |-> <<>>, exc |-> "OSError"]
        ELSE [ret |-> walk.meta.data, exc |-> "none"]

InMemGetInto(root, path, byteStream) ==
    LET walk == WalkTo(root, SplitPath(path), FALSE)
    IN  IF walk.exc # "none" THEN Raise(root, byteStream, walk.exc)
        ELSE IF walk.meta.kind # "FILE" THEN Raise(root, byteStream, "OSError")
        ELSE Return(root, StreamWrite(byteStream, walk.meta.data), <<>>)

\* a set that writes the root as it writes any other path: the root becomes
\* a file
InMemSetRootToo(root, path, content) ==
    LET pathVec == SplitPath(path)
        walk == WalkTo(root, ButLast(pathVec), TRUE)
        read == StreamRead(AsStream(content))
        data == IF content.type = "bytes" THEN content.data ELSE read.ret
        after == IF content.type = "stream" THEN read.stream ELSE AsStream(content)
    IN  IF pathVec = <<>> THEN Return(NewFile(data), after, <<>>)
        ELSE IF walk.exc # "none" THEN Raise(walk.tree, AsStream(content), walk.exc)
        ELSE IF content.type \notin {"bytes", "stream"}
             THEN Raise(walk.tree, AsStream(content), "TypeError")
        ELSE IF walk.meta.kind # "DIR" THEN Raise(walk.tree, after, "TypeError")
        ELSE Return(
                Replace(walk.tree, ButLast(pathVec),
                    [walk.meta EXCEPT
                        !.children = Put(@, pathVec[Len(pathVec)], NewFile(data))]),
                after, <<>>)

InMemSet(root, path, content) ==
    IF path = <<>> THEN Raise(root, AsStream(content), "OSError")
    ELSE
    LET pathVec == SplitPath(path)
        walk == WalkTo(root, ButLast(pathVec), TRUE)
        \* content.read(), when content is a stream
        read == StreamRead(AsStream(content))
        data == IF content.type = "bytes" THEN content.data ELSE read.ret
        after == IF content.type = "stream" THEN read.stream ELSE AsStream(content)
    IN  IF walk.exc # "none" THEN Raise(walk.tree, AsStream(content), walk.exc)
        \* filename = pathVec[-1] of an empty vector
        ELSE IF pathVec = <<>> THEN Raise(walk.tree, AsStream(content), "IndexError")
        ELSE IF content.type \notin {"bytes", "stream"}
             THEN Raise(walk.tree, AsStream(content), "TypeError")
        \* parentDir.contents[filename] = ... where contents is the bytes of a file
        ELSE IF walk.meta.kind # "DIR" THEN Raise(walk.tree, after, "TypeError")
        ELSE Return(
                Replace(walk.tree, ButLast(pathVec),
                    [walk.meta EXCEPT
                        !.children = Put(@, pathVec[Len(pathVec)], NewFile(data))]),
                after, <<>>)

\* an rm without the test for a non-empty directory
InMemRmAnyDir(root, path) ==
    LET pathVec == SplitPath(path)
        walk == WalkTo(root, ButLast(pathVec), FALSE)
    IN  IF path = <<>> \/ walk.exc # "none" \/ walk.meta.kind # "DIR"
        THEN Raise(root, NoStream, "OSError")
        ELSE IF pathVec = <<>> THEN Raise(root, NoStream, "IndexError")
        ELSE IF pathVec[Len(pathVec)] \notin DOMAIN walk.meta.children
             THEN Raise(root, NoStream, "OSError")
        ELSE Return(
                Replace(root, ButLast(pathVec),
                    [walk.meta EXCEPT !.children = Del(@, pathVec[Len(pathVec)])]),
                NoStream, <<>>)

InMemRm(root, path) ==
    IF path = <<>> THEN Raise(root, NoStream, "OSError")
    ELSE
    LET pathVec == SplitPath(path)
        walk == WalkTo(root, ButLast(pathVec), FALSE)
    IN  IF walk.exc # "none" THEN Raise(root, NoStream, walk.exc)
        ELSE IF pathVec = <<>> THEN Raise(root, NoStream, "IndexError")
        ELSE
        LET parentDirMeta == walk.meta
            filename == pathVec[Len(pathVec)]
        IN  IF parentDirMeta.kind # "DIR" THEN Raise(root, NoStream, "OSError")
            ELSE IF filename \notin DOMAIN parentDirMeta.children
                 THEN Raise(root, NoStream, "OSError")
            ELSE
            LET fileMeta == parentDirMeta.children[filename]
            IN  IF fileMeta.kind = "FILE" \/ fileMeta.children = EmptyMap
                THEN Return(
                        Replace(root, ButLast(pathVec),
                            [parentDirMeta EXCEPT !.children = Del(@, filename)]),
                        NoStream, <<>>)
                ELSE Raise(root, NoStream, "OSError")

-----------------------------------------------------------------------------
(* util.chunkedByteStreamPipe with amount = -1: read chunks until the input   *)
(* is exhausted and write each to the output                                 *)

ChunkedByteStreamPipe(inStream, outStream) ==
    [inStream |-> StreamRead(inStream).stream,
     outStream |-> StreamWrite(outStream, StreamRead(inStream).ret)]

-----------------------------------------------------------------------------
(* DiskFileSystem: disk_filesystem.py, over the directory tree below its    *)
(* rootPath as the os module shows and changes it                           *)

\* DiskFileSystem._rooted, as the vector of names below the root directory
DiskRooted(path) == SplitOnSep(StripSeps(path))

RECURSIVE OsLookup(_, _)
\* the entry at a location: found (os.path.exists) and the node
OsLookup(node, vec) ==
    IF vec = <<>> THEN [node |-> node, found |-> TRUE]
    ELSE IF node.kind # "DIR" \/ Head(vec) \notin DOMAIN node.children
         THEN [node |-> node, found |-> FALSE]
    ELSE OsLookup(node.children[Head(vec)], Tail(vec))

RECURSIVE OsMakedirs(_, _)
\* os.makedirs(dirname) with its OSError dropped, as safeOpen drops it:
\* the missing directories are made unless a file is in the way
OsMakedirs(node, vec) ==
    IF vec = <<>> \/ node.kind # "DIR" THEN node
    ELSE LET child == IF Head(vec) \in DOMAIN node.children
                      THEN node.children[Head(vec)] ELSE NewDir
             made == OsMakedirs(child, Tail(vec))
         IN  \* nothing is made above a file that is in the way
             IF OsLookup(made, Tail(vec)).found /\ OsLookup(made, Tail(vec)).node.kind = "DIR"
             THEN [node EXCEPT !.children = Put(@, Head(vec), made)]
             ELSE node

\* open(path, "wb"): the opening fails on the root, on a directory, and below
\* a missing directory or a file
OsCanOpenForWrite(root, vec) ==
    /\ vec # <<>>
    /\ OsLookup(root, ButLast(vec)).found
    /\ OsLookup(root, ButLast(vec)).node.kind = "DIR"
    /\ ~(OsLookup(root, vec).found /\ OsLookup(root, vec).node.kind = "DIR")

\* the tree with the file at vec holding data
OsWriteFile(root, vec, data) ==
    LET parent == OsLookup(root, ButLast(vec)).node
    IN  Replace(root, ButLast(vec),
            [parent EXCEPT !.children = Put(@, vec[Len(vec)], NewFile(data))])

\* os.remove and os.rmdir of an entry
OsUnlink(root, vec) ==
    LET parent == OsLookup(root, ButLast(vec)).node
    IN  Replace(root, ButLast(vec), [parent EXCEPT !.children = Del(@, vec[Len(vec)])])

DiskExists(root, path) == OsLookup(root, DiskRooted(path)).found

DiskIsdir(root, path) ==
    LET at == OsLookup(root, DiskRooted(path)) IN at.found /\ at.node.kind = "DIR"

DiskIsfile(root, path) ==
    LET at == OsLookup(root, DiskRooted(path)) IN at.found /\ at.node.kind = "FILE"

DiskGetsize(root, path) ==
    LET at == OsLookup(root, DiskRooted(path))
    IN  IF at.found THEN [ret |-> at.node.size, exc |-> "none"]
        ELSE [ret |-> 0, exc |-> "OSError"]

DiskGet(root, path) ==
    IF ~DiskExists(root, path) THEN [ret |-> <<>>, exc |-> "OSError"]
    ELSE IF ~DiskIsfile(root, path) THEN [ret |-> <<>>, exc |-> "OSError"]
    ELSE [ret |-> OsLookup(root, DiskRooted(path)).node.data, exc |-> "none"]

DiskGetInto(root, path, byteStream) ==
    IF ~DiskExists(root, path) THEN Raise(root, byteStream, "OSError")
    ELSE IF ~DiskIsfile(root, path) THEN Raise(root, byteStream, "OSError")
    ELSE LET file == [data |-> OsLookup(root, DiskRooted(path)).node.data, pos |-> 0,
                      seekable |-> TRUE]
         IN  Return(root, ChunkedByteStreamPipe(file, byteStream).outStream, <<>>)

DiskSet(root, path, content) ==
    LET vec == DiskRooted(path)
        \* safeOpen: os.makedirs(dirname), the dirname of the root lying above it
        made == IF vec = <<>> THEN root ELSE OsMakedirs(root, ButLast(vec))
        file == [data |-> <<>>, pos |-> 0, seekable |-> TRUE]
        piped == ChunkedByteStreamPipe(AsStream(content), file)
    IN  IF ~OsCanOpenForWrite(made, vec) THEN Raise(made, AsStream(content), "OSError")
        ELSE IF content.type = "bytes"
             THEN Return(OsWriteFile(made, vec, content.data), AsStream(content), <<>>)
        ELSE IF content.type = "stream"
             THEN Return(OsWriteFile(made, vec, piped.outStream.data), piped.inStream, <<>>)
        \* inStream.read of something that is no stream, the file being open
        ELSE Raise(OsWriteFile(made, vec, <<>>), AsStream(content), "AttributeError")

DiskRm(root, path) ==
    LET stripped == StripSeps(path)
        vec == DiskRooted(stripped)
    IN  IF stripped = <<>> THEN Raise(root, NoStream, "OSError")
        ELSE IF ~DiskExists(root, stripped) THEN Raise(root, NoStream, "OSError")
        ELSE IF DiskIsfile(root, stripped) THEN Return(OsUnlink(root, vec), NoStream, <<>>)
        ELSE IF DiskIsdir(root, stripped)
             THEN \* os.rmdir fails on a directory that is not empty
                  IF OsLookup(root, vec).node.children = EmptyMap
                  THEN Return(OsUnlink(root, vec), NoStream, <<>>)
                  ELSE Raise(root, NoStream, "OSError")
        ELSE Raise(root, NoStream, "OSError")

-----------------------------------------------------------------------------
(* A FileSystem: the backend kind decides the implementation *)

FsExists(kind, root, path) ==
    IF kind = "mem" THEN InMemExists(root, path) ELSE DiskExists(root, path)

FsIsdir(kind, root, path) ==
    IF kind = "mem" THEN InMemIsdir(root, path) ELSE DiskIsdir(root, path)

FsIsfile(kind, root, path) ==
    IF kind = "mem" THEN InMemIsfile(root, path) ELSE DiskIsfile(root, path)

FsGetsize(kind, root, path) ==
    IF kind = "mem" THEN InMemGetsize(root, path) ELSE DiskGetsize(root, path)

FsGet(kind, root, path) ==
    IF kind = "mem" THEN InMemGet(root, path) ELSE DiskGet(root, path)

FsGetInto(kind, root, path, byteStream) ==
    IF kind = "mem" THEN InMemGetInto(root, path, byteStream)
    ELSE DiskGetInto(root, path, byteStream)

FsSet(kind, root, path, content) ==
    IF kind = "mem" THEN InMemSet(root, path, content) ELSE DiskSet(root, path, content)

FsRm(kind, root, path) ==
    IF kind = "mem" THEN InMemRm(root, path) ELSE DiskRm(root, path)

Kinds == {"mem", "disk"}

-----------------------------------------------------------------------------
(* What a tree holds, read off the tree itself *)

RECURSIVE Entries(_, _)
\* every entry below a node, as [path, kind, data]; at is the path of the node
Entries(node, at) ==
    UNION {{[data |-> node.children[n].data, path |-> at \o <<n>>,
             kind |-> node.children[n].kind]}
           \cup Entries(node.children[n], at \o <<n>>) : n \in DOMAIN node.children}

\* vec is a proper prefix of the vector w
Above(vec, w) == Len(vec) < Len(w) /\ SubSeq(w, 1, Len(vec)) = vec

\* the proper prefixes of a vector
Ancestors(vec) == {SubSeq(vec, 1, k) : k \in 0..(Len(vec) - 1)}

\* the record of an operation in the variable last
Op(name, path, content, r) ==
    [ret |-> r.ret, path |-> path, exc |-> r.exc, content |-> content, op |-> name]

NoOp == [ret |-> <<>>, path |-> <<>>, exc |-> "none", content |-> Bytes(<<>>),
         op |-> "none"]

-----------------------------------------------------------------------------
(* SpecMem: a client of one InMemFileSystem *)

MemInit ==
    /\ heap = <<>>
    /\ instances = <<>>
    /\ remote = <<>>
    /\ calls = <<>>
    /\ threads = <<>>
    /\ fs = NewDir
    /\ front = NewDir
    /\ back = NewDir
    /\ kinds = [fs |-> "mem", front |-> "mem", back |-> "mem"]
    /\ stream = NoStream
    /\ last = NoOp

MemSet(path, data) ==
    LET r == InMemSet(fs, path, Bytes(data))
    IN  /\ NodeCount(r.tree) <= MaxNodes
        /\ fs' = r.tree
        /\ last' = Op("set", path, Bytes(data), r)
        /\ UNCHANGED <<heap, instances, remote, calls, threads, front, back, kinds, stream>>

MemRm(path) ==
    LET r == InMemRm(fs, path)
    IN  /\ fs' = r.tree
        /\ last' = Op("rm", path, Bytes(<<>>), r)
        /\ UNCHANGED <<heap, instances, remote, calls, threads, front, back, kinds, stream>>

MemNext ==
    \E path \in Paths :
        \/ \E data \in Payloads : MemSet(path, data)
        \/ MemRm(path)

SpecMem == MemInit /\ [][MemNext]_vars

\* C1: on an InMemFileSystem, after a successful set(p, v) of bytes v at a
\* non-root path p, get(p) returns v, exists(p) and isfile(p) are true,
\* isdir(p) is false, getsize(p) is len(v), and every ancestor of p exists and
\* is a directory.
C1_SetIsObservable ==
    (last.op = "set" /\ last.exc = "none") =>
        /\ InMemGet(fs, last.path) = [ret |-> last.content.data, exc |-> "none"]
        /\ InMemExists(fs, last.path)
        /\ InMemIsfile(fs, last.path)
        /\ ~InMemIsdir(fs, last.path)
        /\ InMemGetsize(fs, last.path) = [ret |-> Len(last.content.data),
                                          exc |-> "none"]
        /\ \A anc \in Ancestors(SplitOnSep(last.path)) :
              InMemExists(fs, Render(anc)) /\ InMemIsdir(fs, Render(anc))

\* a nested file has been written, over a tree that held something else
C1_Witness ==
    /\ last.op = "set" /\ last.exc = "none"
    /\ Len(SplitOnSep(last.path)) = 2
    /\ last.content.data # <<>>

\* the entry at path p of the tree is a file, or a directory without entries
Removable(root, vec) ==
    /\ vec # <<>>
    /\ \E e \in Entries(root, <<>>) : e.path = vec
    /\ \A e \in Entries(root, <<>>) : e.path = vec /\ e.kind = "DIR" =>
            ~\E below \in Entries(root, <<>>) : Above(vec, below.path)

C2_RmStep ==
    last'.op = "rm" =>
        LET vec == SplitOnSep(last'.path)
        IN  IF Removable(fs, vec)
            THEN /\ last'.exc = "none"
                 /\ Entries(fs', <<>>) = {e \in Entries(fs, <<>>) : e.path # vec}
                 /\ ~InMemExists(fs', last'.path)
                 /\ ~InMemIsfile(fs', last'.path)
                 /\ ~InMemIsdir(fs', last'.path)
                 /\ InMemRm(fs', last'.path).exc = "OSError"
            ELSE /\ last'.exc # "none"
                 /\ fs' = fs

\* C2: on an InMemFileSystem, rm(p) of an absent path, of the root or of a
\* non-empty directory raises and leaves the tree unchanged; rm(p) of a file or
\* of an empty directory removes exactly that entry, after which exists(p),
\* isfile(p) and isdir(p) are false and a second rm(p) raises an IO error.
C2_Rm == [][C2_RmStep]_vars

\* an empty directory has been removed while another entry stays
C2_Witness ==
    /\ last.op = "rm" /\ last.exc = "none"
    /\ Entries(fs, <<>>) # {}

-----------------------------------------------------------------------------
(* WriteOnceFileSystem: write_once_filesystem.py *)

WriteOnceExists(kind, root, path) == FsExists(kind, root, path)

WriteOnceGet(kind, root, path) == FsGet(kind, root, path)

\* a set that does not look whether the path exists
WriteOnceSetAlways(kind, root, path, content) == FsSet(kind, root, path, content)

WriteOnceSet(kind, root, path, content) ==
    IF FsExists(kind, root, path) THEN Raise(root, AsStream(content), "OSError")
    ELSE FsSet(kind, root, path, content)

WriteOnceRm(kind, root, path) == Raise(root, NoStream, "OSError")

\* the trees a wrapper may be put around: an empty one, and those one set makes
SeedTrees(kind) ==
    {NewDir} \cup {FsSet(kind, NewDir, path, Bytes(data)).tree :
                      path \in ChainPaths, data \in Payloads}

\* SpecWriteOnce: a client of a WriteOnceFileSystem around a backend
OnceInit ==
    /\ heap = <<>>
    /\ instances = <<>>
    /\ remote = <<>>
    /\ calls = <<>>
    /\ threads = <<>>
    /\ kinds \in {[fs |-> k, front |-> "mem", back |-> "mem"] : k \in Kinds}
    /\ fs \in SeedTrees(kinds.fs)
    /\ front = NewDir
    /\ back = NewDir
    /\ stream = NoStream
    /\ last = NoOp

OnceSet(path, data) ==
    LET r == WriteOnceSet(kinds.fs, fs, path, Bytes(data))
    IN  /\ NodeCount(r.tree) <= MaxNodes
        /\ fs' = r.tree
        /\ last' = Op("set", path, Bytes(data), r)
        /\ UNCHANGED <<heap, instances, remote, calls, threads, front, back, kinds, stream>>

OnceRm(path) ==
    LET r == WriteOnceRm(kinds.fs, fs, path)
    IN  /\ fs' = r.tree
        /\ last' = Op("rm", path, Bytes(<<>>), r)
        /\ UNCHANGED <<heap, instances, remote, calls, threads, front, back, kinds, stream>>

OnceNext ==
    \E path \in ChainPaths :
        \/ \E data \in Payloads : OnceSet(path, data)
        \/ OnceRm(path)

SpecWriteOnce == OnceInit /\ [][OnceNext]_vars

C3_OnceStep ==
    /\ (last'.op = "set" /\ FsExists(kinds.fs, fs, last'.path)) =>
            (last'.exc = "OSError" /\ fs' = fs)
    /\ last'.op = "rm" => (last'.exc = "OSError" /\ fs' = fs)
    /\ \A path \in ChainPaths :
            WriteOnceGet(kinds.fs, fs, path).exc = "none" =>
                WriteOnceGet(kinds.fs, fs', path) = WriteOnceGet(kinds.fs, fs, path)

\* C3: through a WriteOnceFileSystem, set on a path that exists raises an IO
\* error and rm always raises an IO error, both leaving the inner filesystem
\* unchanged; so once get(p) has returned v, every later get(p) returns v.
C3_WriteOnce == [][C3_OnceStep]_vars

\* a set of a path that holds a file has been refused, and then a set of
\* another path has gone through
C3_Witness ==
    /\ last.op = "set" /\ last.exc = "OSError"
    /\ FsIsfile(kinds.fs, fs, last.path)
    /\ FsGet(kinds.fs, fs, last.path).ret # last.content.data

-----------------------------------------------------------------------------
(* ReadOnlyFileSystem: filesystem_interface.py;                             *)
(* WriteProtectedFileSystem: write_protected_filesystem.py                  *)

ReadOnlyIsReadOnly == TRUE

ReadOnlySet(root, path, content) == Raise(root, AsStream(content), "OSError")

ReadOnlyRm(root, path) == Raise(root, NoStream, "OSError")

WriteProtectedIsReadOnly == ReadOnlyIsReadOnly

\* a set that is handed to the wrapped filesystem
WriteProtectedSetThrough(kind, root, path, content) == FsSet(kind, root, path, content)

WriteProtectedSet(kind, root, path, content) == ReadOnlySet(root, path, content)

WriteProtectedRm(kind, root, path) == ReadOnlyRm(root, path)

WriteProtectedExists(kind, root, path) == FsExists(kind, root, path)

WriteProtectedIsdir(kind, root, path) == FsIsdir(kind, root, path)

WriteProtectedIsfile(kind, root, path) == FsIsfile(kind, root, path)

WriteProtectedGetsize(kind, root, path) == FsGetsize(kind, root, path)

WriteProtectedGet(kind, root, path) == FsGet(kind, root, path)

\* SpecWriteProtected: a client of a WriteProtectedFileSystem, and a client
\* of the backend it wraps
ProtInit ==
    /\ heap = <<>>
    /\ instances = <<>>
    /\ remote = <<>>
    /\ calls = <<>>
    /\ threads = <<>>
    /\ kinds \in {[fs |-> k, front |-> "mem", back |-> "mem"] : k \in Kinds}
    /\ fs = NewDir
    /\ front = NewDir
    /\ back = NewDir
    /\ stream = NoStream
    /\ last = NoOp

ProtSet(path, data) ==
    LET r == WriteProtectedSet(kinds.fs, fs, path, Bytes(data))
    IN  /\ fs' = r.tree
        /\ last' = Op("set", path, Bytes(data), r)
        /\ UNCHANGED <<heap, instances, remote, calls, threads, front, back, kinds, stream>>

ProtRm(path) ==
    LET r == WriteProtectedRm(kinds.fs, fs, path)
    IN  /\ fs' = r.tree
        /\ last' = Op("rm", path, Bytes(<<>>), r)
        /\ UNCHANGED <<heap, instances, remote, calls, threads, front, back, kinds, stream>>

InnerSet(path, data) ==
    LET r == FsSet(kinds.fs, fs, path, Bytes(data))
    IN  /\ NodeCount(r.tree) <= MaxNodes
        /\ fs' = r.tree
        /\ last' = Op("inner.set", path, Bytes(data), r)
        /\ UNCHANGED <<heap, instances, remote, calls, threads, front, back, kinds, stream>>

InnerRm(path) ==
    LET r == FsRm(kinds.fs, fs, path)
    IN  /\ fs' = r.tree
        /\ last' = Op("inner.rm", path, Bytes(<<>>), r)
        /\ UNCHANGED <<heap, instances, remote, calls, threads, front, back, kinds, stream>>

ProtNext ==
    \E path \in ChainPaths :
        \/ \E data \in Payloads : ProtSet(path, data) \/ InnerSet(path, data)
        \/ ProtRm(path)
        \/ InnerRm(path)

SpecWriteProtected == ProtInit /\ [][ProtNext]_vars

C4_ProtStep ==
    last'.op \in {"set", "rm"} => (last'.exc = "OSError" /\ fs' = fs)

C4_ReadsOfInner ==
    /\ WriteProtectedIsReadOnly
    /\ \A path \in ChainPaths :
        /\ WriteProtectedExists(kinds.fs, fs, path) = FsExists(kinds.fs, fs, path)
        /\ WriteProtectedIsdir(kinds.fs, fs, path) = FsIsdir(kinds.fs, fs, path)
        /\ WriteProtectedIsfile(kinds.fs, fs, path) = FsIsfile(kinds.fs, fs, path)
        /\ WriteProtectedGetsize(kinds.fs, fs, path) = FsGetsize(kinds.fs, fs, path)
        /\ WriteProtectedGet(kinds.fs, fs, path) = FsGet(kinds.fs, fs, path)

-----------------------------------------------------------------------------
(* CloningFileSystem: cloning_filesystem.py.  An operation leaves the two   *)
(* trees, the caller's stream, exc and the value returned.                  *)

Outcome(f, b, s, exc, ret) ==
    [front |-> f, back |-> b, stream |-> s, ret |-> ret, exc |-> exc]

\* tempfile.SpooledTemporaryFile()
Spool == [data |-> <<>>, pos |-> 0, seekable |-> TRUE]

CloningExists(kf, kb, f, b, path) == FsExists(kf, f, path) \/ FsExists(kb, b, path)

CloningIsdir(kf, kb, f, b, path) == FsIsdir(kf, f, path) \/ FsIsdir(kb, b, path)

CloningIsfile(kf, kb, f, b, path) == FsIsfile(kf, f, path) \/ FsIsfile(kb, b, path)

\* a get that leaves the front as it is
CloningGetUnfilled(kf, kb, f, b, path) ==
    IF FsExists(kf, f, path)
    THEN LET r == FsGet(kf, f, path) IN Outcome(f, b, NoStream, r.exc, r.ret)
    ELSE LET data == FsGet(kb, b, path)
         IN  Outcome(f, b, NoStream, data.exc, data.ret)

CloningGet(kf, kb, f, b, path) ==
    IF FsExists(kf, f, path)
    THEN LET r == FsGet(kf, f, path) IN Outcome(f, b, NoStream, r.exc, r.ret)
    ELSE LET data == FsGet(kb, b, path)
             rf == FsSet(kf, f, path, Bytes(data.ret))
         IN  IF data.exc # "none" THEN Outcome(f, b, NoStream, data.exc, <<>>)
             \* except OSError: logged
             ELSE IF rf.exc \in {"none", "OSError"}
                  THEN Outcome(rf.tree, b, NoStream, "none", data.ret)
             ELSE Outcome(rf.tree, b, NoStream, rf.exc, <<>>)

CloningGetInto(kf, kb, f, b, path, byteStream) ==
    IF FsExists(kf, f, path)
    THEN LET r == FsGetInto(kf, f, path, byteStream)
         IN  Outcome(f, b, r.stream, r.exc, <<>>)
    \* pos = byteStream.tell()
    ELSE IF ~byteStream.seekable
         THEN Outcome(f, b, byteStream, "UnsupportedOperation", <<>>)
    ELSE LET pos == byteStream.pos
             rb == FsGetInto(kb, b, path, byteStream)
             rf == FsSet(kf, f, path, AsContent(StreamSeek(rb.stream, pos)))
         IN  IF rb.exc # "none" THEN Outcome(f, b, rb.stream, rb.exc, <<>>)
             ELSE Outcome(rf.tree, b, rf.stream, rf.exc, <<>>)

\* a set that writes the front first
CloningSetFrontFirst(kf, kb, f, b, path, content) ==
    LET rf == FsSet(kf, f, path, content)
        rb == FsSet(kb, b, path, AsContent(StreamSeek(rf.stream, content.pos)))
    IN  IF rf.exc # "none" THEN Outcome(rf.tree, b, rf.stream, rf.exc, <<>>)
        ELSE Outcome(rf.tree, rb.tree, rb.stream, rb.exc, <<>>)

CloningSet(kf, kb, f, b, path, content) ==
    IF content.type = "bytes"
    THEN LET rb == FsSet(kb, b, path, content)
             rf == FsSet(kf, f, path, content)
         IN  IF rb.exc # "none" THEN Outcome(f, rb.tree, rb.stream, rb.exc, <<>>)
             ELSE Outcome(rf.tree, rb.tree, rf.stream, rf.exc, <<>>)
    \* position = content.tell() returned
    ELSE IF content.seekable
    THEN LET position == content.pos
             rb == FsSet(kb, b, path, content)
             rf == FsSet(kf, f, path, AsContent(StreamSeek(rb.stream, position)))
         IN  IF rb.exc # "none" THEN Outcome(f, rb.tree, rb.stream, rb.exc, <<>>)
             ELSE Outcome(rf.tree, rb.tree, rf.stream, rf.exc, <<>>)
    ELSE LET piped == ChunkedByteStreamPipe(AsStream(content), Spool)
             fd == StreamSeek(piped.outStream, 0)
             rb == FsSet(kb, b, path, AsContent(fd))
             rf == FsSet(kf, f, path, AsContent(StreamSeek(rb.stream, 0)))
         IN  IF rb.exc # "none" THEN Outcome(f, rb.tree, piped.inStream, rb.exc, <<>>)
             ELSE Outcome(rf.tree, rb.tree, piped.inStream, rf.exc, <<>>)

\* front.rm followed by back.rm without the finally clause
CloningRmNoFinally(kf, kb, f, b, path) ==
    LET rf == FsRm(kf, f, path)
        rb == FsRm(kb, b, path)
    IN  IF rf.exc # "none" THEN Outcome(rf.tree, b, NoStream, rf.exc, <<>>)
        ELSE Outcome(rf.tree, rb.tree, NoStream, rb.exc, <<>>)

\* try: front.rm  finally: back.rm
CloningRm(kf, kb, f, b, path) ==
    LET rf == FsRm(kf, f, path)
        rb == FsRm(kb, b, path)
    IN  Outcome(rf.tree, rb.tree, NoStream,
                IF rb.exc # "none" THEN rb.exc ELSE rf.exc, <<>>)

\* the longest data callers write
Data == Prefix(MaxLen)

\* the byte strings callers write to a pair: none, and the longest
Contents == {<<>>, Data}

\* the streams a composite's set is handed: the data in a seekable stream at
\* its start and behind its first byte, and in a stream that cannot seek
SourceStreams ==
    {[data |-> Data, pos |-> 0, seekable |-> TRUE],
     [data |-> Data, pos |-> 1, seekable |-> TRUE],
     [data |-> Data, pos |-> 0, seekable |-> FALSE]}

\* the streams a composite's getInto is handed: an empty one, one that holds
\* the data already, at its start or behind its first byte, and one that
\* cannot seek
TargetStreams ==
    {[data |-> <<>>, pos |-> 0, seekable |-> TRUE],
     [data |-> Data, pos |-> 0, seekable |-> TRUE],
     [data |-> Data, pos |-> 1, seekable |-> TRUE],
     [data |-> <<>>, pos |-> 0, seekable |-> FALSE]}

\* the record of an operation on a pair of filesystems in the variable last
PairOp(name, path, content, r, afterBackSet) ==
    [ret |-> r.ret, path |-> path, exc |-> r.exc, content |-> content, op |-> name,
     afterBackSet |-> afterBackSet]

\* SpecCloning: a client of a CloningFileSystem, and a client of its back
CloneInit ==
    /\ heap = <<>>
    /\ instances = <<>>
    /\ remote = <<>>
    /\ calls = <<>>
    /\ threads = <<>>
    /\ kinds \in {[fs |-> "mem", front |-> kf, back |-> kb] : kf \in Kinds, kb \in Kinds}
    /\ fs = NewDir
    /\ front = NewDir
    /\ back = NewDir
    /\ stream = NoStream
    /\ last = PairOp("none", <<>>, Bytes(<<>>), Outcome(NewDir, NewDir, NoStream, "none", <<>>), FALSE)

\* the step of a composite's operation with outcome r; the record of the
\* operation remembers whether it follows a write to the same path of the back
\* that went around the composite
CompositeStep(name, path, content, r) ==
    /\ NodeCount(r.front) <= MaxNodes
    /\ NodeCount(r.back) <= MaxNodes
    /\ front' = r.front
    /\ back' = r.back
    /\ stream' = r.stream
    /\ last' = PairOp(name, path, content, r,
                      last.op = "back.set" /\ last.exc = "none" /\ last.path = path)
    /\ UNCHANGED <<heap, instances, remote, calls, threads, fs, kinds>>

CloneSet(path, content) ==
    CompositeStep("set", path, content,
        CloningSet(kinds.front, kinds.back, front, back, path, content))

CloneGet(path) ==
    CompositeStep("get", path, Bytes(<<>>),
        CloningGet(kinds.front, kinds.back, front, back, path))

CloneGetInto(path, byteStream) ==
    CompositeStep("getInto", path, AsContent(byteStream),
        CloningGetInto(kinds.front, kinds.back, front, back, path, byteStream))

CloneRm(path) ==
    CompositeStep("rm", path, Bytes(<<>>),
        CloningRm(kinds.front, kinds.back, front, back, path))

BackSet(path, data) ==
    LET r == FsSet(kinds.back, back, path, Bytes(data))
    IN  CompositeStep("back.set", path, Bytes(data),
            Outcome(front, r.tree, NoStream, r.exc, <<>>))

BackRm(path) ==
    LET r == FsRm(kinds.back, back, path)
    IN  CompositeStep("back.rm", path, Bytes(<<>>),
            Outcome(front, r.tree, NoStream, r.exc, <<>>))

CloneNext ==
    \E path \in PairPaths :
        \/ \E data \in Contents : CloneSet(path, Bytes(data)) \/ BackSet(path, data)
        \/ \E s \in SourceStreams : CloneSet(path, AsContent(s))
        \/ \E s \in TargetStreams : CloneGetInto(path, s)
        \/ CloneGet(path)
        \/ CloneRm(path)
        \/ BackRm(path)

SpecCloning == CloneInit /\ [][CloneNext]_vars

\* the bytes a set stores: the bytes given, or the stream from its position on
Written(content) == From(content.data, content.pos)

\* the path holds a file with the given content
Holds(kind, root, path, data) ==
    LET r == FsGet(kind, root, path) IN r.exc = "none" /\ r.ret = data

\* C5 (one step): a composite set of bytes or of a seekable stream that
\* returns leaves the written bytes at p in the front and in the back, and it
\* changes the front only once the back holds the written bytes at p, so a set
\* the back refuses leaves the front alone
C5_SetStep ==
    (/\ last'.op = "set"
     /\ last'.content.type = "bytes" \/ last'.content.seekable)
    => /\ last'.exc = "none"
          => /\ Holds(kinds.front, front', last'.path, Written(last'.content))
             /\ Holds(kinds.back, back', last'.path, Written(last'.content))
       /\ front' # front
          => Holds(kinds.back, back', last'.path, Written(last'.content))

\* C5: after a successful CloningFileSystem.set(p, content) with bytes or a
\* seekable stream, front.get(p) and back.get(p) both equal the bytes written,
\* and the back is written before the front
C5_SetClones == [][C5_SetStep]_vars

\* a seekable stream behind its first byte was set through the composite
C5_Witness ==
    /\ last.op = "set" /\ last.exc = "none"
    /\ last.content.type = "stream" /\ last.content.seekable /\ last.content.pos = 1
    /\ Holds(kinds.front, front, last.path, Written(last.content))
    /\ Holds(kinds.back, back, last.path, Written(last.content))

\* no directory on the way to path is a file in the tree
NoFileAbove(kind, root, path) ==
    \A vec \in Ancestors(SplitPath(path)) : ~FsIsfile(kind, root, Render(vec))

\* the read is a get, or a getInto whose target is seekable and at position 0
ContractRead(op) ==
    \/ op.op = "get"
    \/ op.op = "getInto" /\ op.content.seekable /\ op.content.pos = 0

\* what the read handed to its caller: the bytes returned, or the target's bytes
Handed(op, s) == IF op.op = "get" THEN op.ret ELSE s.data

\* C6 (one step) as the specification states it: a composite get(p), or getInto(p, stream)
\* with an empty stream, right after back.set(p, v) went around the composite,
\* hands out v and leaves v in the front at p, whatever the front held
C6_AnyFrontStep ==
    (/\ last'.afterBackSet
     /\ ContractRead(last') /\ last'.content.data = <<>>)
    => /\ last'.exc = "none"
       /\ Handed(last', stream') = last.content.data
       /\ Holds(kinds.front, front', last'.path, last.content.data)

C6_MissingFrontStep ==
    (/\ last'.afterBackSet
     /\ ContractRead(last')
     /\ ~FsExists(kinds.front, front, last'.path)
     /\ NoFileAbove(kinds.front, front, last'.path))
    => /\ last'.exc = "none"
       /\ Handed(last', stream') = WriteAt(last'.content.data, 0, last.content.data)
       /\ Holds(kinds.front, front', last'.path, Handed(last', stream'))

C7_RmFileStep ==
    (/\ last'.op = "rm"
     /\ CloningIsfile(kinds.front, kinds.back, front, back, last'.path))
    => /\ last'.exc = "none"
       /\ ~CloningExists(kinds.front, kinds.back, front', back', last'.path)
       /\ ~CloningIsfile(kinds.front, kinds.back, front', back', last'.path)
       /\ ~CloningIsdir(kinds.front, kinds.back, front', back', last'.path)
       /\ CloningRm(kinds.front, kinds.back, front', back', last'.path).exc = "OSError"

\* C7 as stated: every rm(p) of a composite that reports p as a file returns,
\* p is gone afterwards and a second rm(p) raises OSError
C7_RmFile == [][C7_RmFileStep]_vars

-----------------------------------------------------------------------------
(* CachedFileSystem: cached_filesystem.py, a ReadOnlyFileSystem             *)

\* FileSystem._checkByteStreamForGet: the exception raised, or "none"
CheckByteStreamForGet(byteStream) ==
    IF ~byteStream.seekable THEN "TypeError"
    ELSE IF byteStream.pos # 0 THEN "ValueError"
    ELSE "none"

\* FileSystem._checkByteStreamForSet: the exception raised, or "none"
CheckByteStreamForSet(byteStream) ==
    IF ~byteStream.seekable THEN "TypeError"
    ELSE IF byteStream.pos # 0 THEN "ValueError"
    ELSE "none"

CachedExists(kf, kb, f, b, path) == FsExists(kf, f, path) \/ FsExists(kb, b, path)

CachedIsdir(kf, kb, f, b, path) ==
    IF FsExists(kf, f, path) THEN FsIsdir(kf, f, path) ELSE FsIsdir(kb, b, path)

CachedIsfile(kf, kb, f, b, path) ==
    IF FsExists(kf, f, path) THEN FsIsfile(kf, f, path) ELSE FsIsfile(kb, b, path)

CachedGetsize(kf, kb, f, b, path) == FsGetsize(kb, b, path)

\* a get that does not keep what it fetched
CachedGetUnfilled(kf, kb, f, b, path) ==
    IF FsExists(kf, f, path)
    THEN LET r == FsGet(kf, f, path) IN Outcome(f, b, NoStream, r.exc, r.ret)
    ELSE LET data == FsGet(kb, b, path)
         IN  Outcome(f, b, NoStream, data.exc, data.ret)

CachedGet(kf, kb, f, b, path) ==
    IF FsExists(kf, f, path)
    THEN LET r == FsGet(kf, f, path) IN Outcome(f, b, NoStream, r.exc, r.ret)
    ELSE LET data == FsGet(kb, b, path)
             rf == FsSet(kf, f, path, Bytes(data.ret))
         IN  IF data.exc # "none" THEN Outcome(f, b, NoStream, data.exc, <<>>)
             ELSE IF rf.exc # "none" THEN Outcome(rf.tree, b, NoStream, rf.exc, <<>>)
             ELSE Outcome(rf.tree, b, NoStream, "none", data.ret)

CachedGetInto(kf, kb, f, b, path, byteStream) ==
    IF CheckByteStreamForGet(byteStream) # "none"
    THEN Outcome(f, b, byteStream, CheckByteStreamForGet(byteStream), <<>>)
    ELSE IF FsExists(kf, f, path)
    THEN LET r == FsGetInto(kf, f, path, byteStream)
         IN  Outcome(r.tree, b, r.stream, r.exc, <<>>)
    ELSE LET pos == byteStream.pos
             rb == FsGetInto(kb, b, path, byteStream)
             rf == FsSet(kf, f, path, AsContent(StreamSeek(rb.stream, pos)))
         IN  IF rb.exc # "none" THEN Outcome(f, rb.tree, rb.stream, rb.exc, <<>>)
             ELSE Outcome(rf.tree, rb.tree, rf.stream, rf.exc, <<>>)

\* a set that writes as a CloningFileSystem does
CachedSetThrough(kf, kb, f, b, path, content) == CloningSet(kf, kb, f, b, path, content)

\* ReadOnlyFileSystem.set
CachedSet(kf, kb, f, b, path, content) ==
    LET r == ReadOnlySet(f, path, content)
    IN  Outcome(r.tree, b, AsStream(content), r.exc, <<>>)

\* ReadOnlyFileSystem.rm
CachedRm(kf, kb, f, b, path) ==
    LET r == ReadOnlyRm(f, path)
    IN  Outcome(r.tree, b, NoStream, r.exc, <<>>)

\* SpecCached: a client of a CachedFileSystem whose front starts empty, around
\* a back that holds some tree
CacheInit ==
    /\ heap = <<>>
    /\ instances = <<>>
    /\ remote = <<>>
    /\ calls = <<>>
    /\ threads = <<>>
    /\ kinds \in {[fs |-> "mem", front |-> kf, back |-> kb] : kf \in Kinds, kb \in Kinds}
    /\ fs = NewDir
    /\ front = NewDir
    /\ back \in SeedTrees(kinds.back)
    /\ stream = NoStream
    /\ last = PairOp("none", <<>>, Bytes(<<>>), Outcome(NewDir, NewDir, NoStream, "none", <<>>), FALSE)

CacheGet(path) ==
    CompositeStep("get", path, Bytes(<<>>),
        CachedGet(kinds.front, kinds.back, front, back, path))

CacheGetInto(path, byteStream) ==
    CompositeStep("getInto", path, AsContent(byteStream),
        CachedGetInto(kinds.front, kinds.back, front, back, path, byteStream))

CacheSet(path, content) ==
    CompositeStep("set", path, content,
        CachedSet(kinds.front, kinds.back, front, back, path, content))

CacheRm(path) ==
    CompositeStep("rm", path, Bytes(<<>>),
        CachedRm(kinds.front, kinds.back, front, back, path))

\* exists, isdir, isfile and getsize: the answer is all they leave
CacheExists(path) ==
    CompositeStep("exists", path, Bytes(<<>>),
        Outcome(front, back, NoStream, "none",
                <<CachedExists(kinds.front, kinds.back, front, back, path)>>))

CacheIsdir(path) ==
    CompositeStep("isdir", path, Bytes(<<>>),
        Outcome(front, back, NoStream, "none",
                <<CachedIsdir(kinds.front, kinds.back, front, back, path)>>))

CacheIsfile(path) ==
    CompositeStep("isfile", path, Bytes(<<>>),
        Outcome(front, back, NoStream, "none",
                <<CachedIsfile(kinds.front, kinds.back, front, back, path)>>))

CacheGetsize(path) ==
    LET r == CachedGetsize(kinds.front, kinds.back, front, back, path)
    IN  CompositeStep("getsize", path, Bytes(<<>>),
            Outcome(front, back, NoStream, r.exc, <<r.ret>>))

CacheNext ==
    \E path \in PairPaths :
        \/ CacheGet(path)
        \/ \E s \in TargetStreams : CacheGetInto(path, s)
        \/ \E data \in Payloads : CacheSet(path, Bytes(data))
        \/ \E s \in SourceStreams : CacheSet(path, AsContent(s))
        \/ CacheRm(path)
        \/ CacheExists(path)
        \/ CacheIsdir(path)
        \/ CacheIsfile(path)
        \/ CacheGetsize(path)

SpecCached == CacheInit /\ [][CacheNext]_vars

\* C8 (one step): an operation on a CachedFileSystem leaves the back as it
\* was, and a set or an rm raises OSError and leaves the front as it was too
C8_BackStep ==
    /\ back' = back
    /\ last'.op \in {"set", "rm"} => (last'.exc = "OSError" /\ front' = front)

GetOver(b, path) == CachedGet(kinds.front, kinds.back, front, b, path)

\* C9 (one step): a get of a path the front has is front.get(path) whatever
\* the back holds; a get of a path the front lacks and the back has as a file
\* returns the back's bytes, leaves them in the front at the path, and the get
\* after it returns the same bytes from the front, whatever the back holds
C9_GetStep ==
    last'.op = "get" =>
        IF FsExists(kinds.front, front, last'.path)
        THEN /\ last'.exc = FsGet(kinds.front, front, last'.path).exc
             /\ last'.ret = FsGet(kinds.front, front, last'.path).ret
             /\ front' = front
             /\ \A b \in SeedTrees(kinds.back) :
                    GetOver(b, last'.path) = [GetOver(back, last'.path) EXCEPT !.back = b]
        ELSE LET data == FsGet(kinds.back, back, last'.path)
             IN  IF data.exc # "none" THEN last'.exc = data.exc /\ front' = front
                 ELSE /\ last'.exc = "none" /\ last'.ret = data.ret
                      /\ Holds(kinds.front, front', last'.path, data.ret)
                      /\ \A b \in SeedTrees(kinds.back) :
                            LET again == CachedGet(kinds.front, kinds.back, front', b,
                                                   last'.path)
                            IN  /\ again.exc = "none" /\ again.ret = data.ret
                                /\ again.front = front' /\ again.back = b

\* C9: CachedFileSystem.get(p) returns the front's content without reading the
\* back when the front has p; otherwise it returns the back's content and
\* writes exactly those bytes into the front at p, so that a second get(p) is
\* served from the front and returns the same bytes
C9_GetCaches == [][C9_GetStep]_vars

\* a get has fetched bytes from the back and the front now holds them
C9_Witness ==
    /\ last.op = "get" /\ last.exc = "none" /\ last.ret # <<>>
    /\ Holds(kinds.front, front, last.path, last.ret)
    /\ Holds(kinds.back, back, last.path, last.ret)

-----------------------------------------------------------------------------
(* SpecStream: a client that hands byte streams to a backend's set and      *)
(* getInto, in any position and seekable or not                             *)

StreamInit ==
    /\ heap = <<>>
    /\ instances = <<>>
    /\ remote = <<>>
    /\ calls = <<>>
    /\ threads = <<>>
    /\ kinds \in {[fs |-> k, front |-> "mem", back |-> "mem"] : k \in Kinds}
    /\ fs \in SeedTrees(kinds.fs)
    /\ front = NewDir
    /\ back = NewDir
    /\ stream = NoStream
    /\ last = NoOp

\* the step of a backend's operation with result r
BackendStep(name, path, content, r) ==
    /\ NodeCount(r.tree) <= MaxNodes
    /\ fs' = r.tree
    /\ stream' = r.stream
    /\ last' = Op(name, path, content, r)
    /\ UNCHANGED <<heap, instances, remote, calls, threads, front, back, kinds>>

StreamSet(path, byteStream) ==
    BackendStep("set", path, AsContent(byteStream),
        FsSet(kinds.fs, fs, path, AsContent(byteStream)))

StreamGetInto(path, byteStream) ==
    BackendStep("getInto", path, AsContent(byteStream),
        FsGetInto(kinds.fs, fs, path, byteStream))

StreamNext ==
    \E path \in ChainPaths, s \in Streams :
        \/ StreamSet(path, s)
        \/ StreamGetInto(path, s)

SpecStream == StreamInit /\ [][StreamNext]_vars

\* C10 (one step) as the specification states it, for a path p that is a file: set with
\* a seekable stream that is not at position 0 raises ValueError and leaves
\* the tree as it was; getInto raises TypeError for a target that cannot seek
\* and ValueError for a target that is not at position 0, and leaves the
\* target as it was
C10_RejectStep ==
    /\ (/\ last'.op = "set"
        /\ FsIsfile(kinds.fs, fs, last'.path)
        /\ last'.content.seekable /\ last'.content.pos # 0)
       => /\ last'.exc = CheckByteStreamForSet(AsStream(last'.content))
          /\ last'.exc = "ValueError"
          /\ fs' = fs
    /\ (/\ last'.op = "getInto"
        /\ FsIsfile(kinds.fs, fs, last'.path)
        /\ ~last'.content.seekable \/ last'.content.pos # 0)
       => /\ last'.exc = CheckByteStreamForGet(AsStream(last'.content))
          /\ last'.exc \in {"TypeError", "ValueError"}
          /\ stream' = AsStream(last'.content)

\* C10 as stated: every set and getInto of a backend refuses a stream that is
\* not at position 0, and getInto one that cannot seek, and changes nothing
C10_Reject == [][C10_RejectStep]_vars

\* C11 (one step) as the specification states it: a getInto that returns,
\* into a seekable stream at position 0, leaves in the stream exactly get(p)
C11_GetIntoStep ==
    (/\ last'.op = "getInto" /\ last'.exc = "none"
     /\ last'.content.seekable /\ last'.content.pos = 0)
    => /\ FsGet(kinds.fs, fs', last'.path).exc = "none"
       /\ stream'.data = FsGet(kinds.fs, fs', last'.path).ret

\* C11 as stated: after every successful getInto(p, s) on a seekable stream at
\* position 0 the contents of s equal get(p), whatever s held before
C11_GetInto == [][C11_GetIntoStep]_vars

-----------------------------------------------------------------------------
(* Listings: listdir of the in-memory and disk backends, and the default    *)
(* listFiles of filesystem_interface.py.  A listing is a sequence of path   *)
(* strings.  A directory hands out its names in some order (the order of    *)
(* insertion of a dict, the order of os.listdir): order, a sequence of all  *)
(* names, stands for it.  maxEntries is <<>> for None and <<n>> for n.      *)

\* the characters of a name: the name "ab" starts with the name "a"
Spell(token) == IF token = "ab" THEN <<"a", "b">> ELSE <<token>>

RECURSIVE Chars(_)
\* the characters of a path string
Chars(path) == IF path = <<>> THEN <<>> ELSE Spell(Head(path)) \o Chars(Tail(path))

\* str.startswith
StartsWith(x, prefix) ==
    /\ Len(Chars(prefix)) <= Len(Chars(x))
    /\ SubSeq(Chars(x), 1, Len(Chars(prefix))) = Chars(prefix)

\* ord() of a character, as far as its order goes
Ord(ch) == IF ch = sep THEN 0 ELSE IF ch = "a" THEN 1 ELSE 2

RECURSIVE CharsLess(_, _)
\* str.__lt__ on the characters
CharsLess(x, y) ==
    IF y = <<>> THEN FALSE
    ELSE IF x = <<>> THEN TRUE
    ELSE IF Head(x) # Head(y) THEN Ord(Head(x)) < Ord(Head(y))
    ELSE CharsLess(Tail(x), Tail(y))

RECURSIVE Insert(_, _)
Insert(sorted, x) ==
    IF sorted = <<>> THEN <<x>>
    ELSE IF CharsLess(Chars(x), Chars(Head(sorted))) THEN <<x>> \o sorted
    ELSE <<Head(sorted)>> \o Insert(Tail(sorted), x)

RECURSIVE Sorted(_)
\* sorted(result)
Sorted(result) ==
    IF result = <<>> THEN <<>> ELSE Insert(Sorted(Tail(result)), Head(result))

\* the names of a directory in the order it hands them out
Ordered(names, order) == SelectSeq(order, LAMBDA n : n \in names)

\* FileSystem.joinPaths("", path, file)
JoinPaths(path, file) == Render(SplitOnSep(StripSeps(path)) \o SplitOnSep(StripSeps(file)))

\* maxEntries is not None and len(result) >= maxEntries
Full(result, maxEntries) == maxEntries # <<>> /\ Len(result) >= maxEntries[1]

RECURSIVE InMemListdirLoopBare(_, _, _, _, _, _, _)
\* a _listdir that appends the bare name of the entry, as os.listdir hands it
\* out, instead of the joined path
InMemListdirLoopBare(result, files, path, pathMeta, recursive, maxEntries, order) ==
    IF files = <<>> THEN result
    ELSE IF Full(result, maxEntries) THEN result
    ELSE LET file == Head(files)
             meta == pathMeta.children[file]
             filePath == JoinPaths(path, <<file>>)
             appended == Append(result, <<file>>)
             below == IF meta.kind = "DIR" /\ recursive
                      THEN InMemListdirLoopBare(appended,
                               Ordered(DOMAIN meta.children, order), filePath, meta,
                               recursive, maxEntries, order)
                      ELSE appended
         IN  InMemListdirLoopBare(below, Tail(files), path, pathMeta, recursive,
                                  maxEntries, order)

RECURSIVE InMemListdirLoop(_, _, _, _, _, _, _)
\* InMemFileSystem._listdir, files being the names the loop has yet to visit
InMemListdirLoop(result, files, path, pathMeta, recursive, maxEntries, order) ==
    IF files = <<>> THEN result
    ELSE IF Full(result, maxEntries) THEN result
    ELSE LET file == Head(files)
             meta == pathMeta.children[file]
             filePath == JoinPaths(path, <<file>>)
             appended == Append(result, filePath)
             below == IF meta.kind = "DIR" /\ recursive
                      THEN InMemListdirLoop(appended, Ordered(DOMAIN meta.children, order),
                                            filePath, meta, recursive, maxEntries, order)
                      ELSE appended
         IN  InMemListdirLoop(below, Tail(files), path, pathMeta, recursive, maxEntries,
                              order)

InMemListdir(root, path, recursive, maxEntries, order) ==
    LET walk == WalkTo(root, SplitPath(path), FALSE)
    IN  IF walk.exc # "none" THEN [ret |-> <<>>, exc |-> walk.exc]
        ELSE IF walk.meta.kind # "DIR" THEN [ret |-> <<>>, exc |-> "OSError"]
        ELSE [ret |-> InMemListdirLoop(<<>>, Ordered(DOMAIN walk.meta.children, order),
                                       path, walk.meta, recursive, maxEntries, order),
              exc |-> "none"]

RECURSIVE DiskListdirLoop(_, _, _, _, _, _, _)
\* DiskFileSystem._listdir, files being the names the loop has yet to visit;
\* the call for a subdirectory passes no maxEntries
DiskListdirLoop(result, files, path, root, recursive, maxEntries, order) ==
    IF files = <<>> THEN result
    ELSE IF Full(result, maxEntries) THEN result
    ELSE LET file == Head(files)
             filePath == JoinPaths(path, <<file>>)
             appended == Append(result, filePath)
             below == IF recursive /\ DiskIsdir(root, filePath)
                      THEN DiskListdirLoop(appended,
                               Ordered(DOMAIN OsLookup(root, DiskRooted(filePath)).node.children,
                                       order),
                               filePath, root, recursive, <<>>, order)
                      ELSE appended
         IN  DiskListdirLoop(below, Tail(files), path, root, recursive, maxEntries, order)

DiskListdir(root, path, recursive, maxEntries, order) ==
    LET at == OsLookup(root, DiskRooted(path))
    \* os.listdir of a path that is absent or a file
    IN  IF ~at.found \/ at.node.kind # "DIR" THEN [ret |-> <<>>, exc |-> "OSError"]
        ELSE [ret |-> Sorted(DiskListdirLoop(<<>>, Ordered(DOMAIN at.node.children, order),
                                             path, root, recursive, maxEntries, order)),
              exc |-> "none"]

FsListdir(kind, root, path, recursive, maxEntries, order) ==
    IF kind = "mem" THEN InMemListdir(root, path, recursive, maxEntries, order)
    ELSE DiskListdir(root, path, recursive, maxEntries, order)

\* whether the string holds a separator: len(prefix.split(sep)) > 1
HasSep(prefix) == \E i \in 1..Len(prefix) : prefix[i] = sep

\* sep.join(prefix.split(sep)[:-1]): the string before its last separator
BeforeLastSep(prefix) ==
    LET at == CHOOSE i \in 1..Len(prefix) :
                  prefix[i] = sep /\ \A j \in (i + 1)..Len(prefix) : prefix[j] # sep
    IN  SubSeq(prefix, 1, at - 1)

\* FileSystem.listFiles
ListFiles(kind, root, prefix0, order) ==
    LET prefix == LStrip(prefix0)
        path == IF FsIsdir(kind, root, prefix) THEN prefix
                ELSE IF HasSep(prefix) THEN BeforeLastSep(prefix)
                ELSE <<>>
        listed == FsListdir(kind, root, path, TRUE, <<>>, order)
    IN  IF listed.exc # "none" THEN [ret |-> <<>>, exc |-> listed.exc]
        ELSE [ret |-> SelectSeq(listed.ret,
                          LAMBDA x : StartsWith(x, prefix) /\ FsIsfile(kind, root, x)),
              exc |-> "none"]

\* SpecList: a client that sets files on a backend and lists it

\* the names of the listed trees: one is the start of the other
ListNames == {"a", "ab"}

\* the files the client sets
ListedPaths == {<<"a">>, <<"ab">>, <<"a", sep, "a">>, <<"a", sep, "ab">>}

\* the paths the client lists: the root, a name in two spellings, and below
DirPaths == {<<>>, <<"a">>, <<sep, "a", sep>>, <<"ab">>, <<"a", sep, "a">>}

\* the prefixes handed to listFiles
Prefixes ==
    {<<>>, <<"a">>, <<"ab">>, <<sep, "a">>, <<"a", sep>>, <<"a", sep, "a">>,
     <<"ab", sep, "a">>}

\* the orders in which a directory may hand out its names
Orders == {<<"a", "ab">>, <<"ab", "a">>}

\* the values of maxEntries: None, 0, 1, ...
Limits == {<<>>} \cup {<<n>> : n \in 0..MaxNodes}

\* the record of a listing in the variable last
ListOp(name, path, recursive, maxEntries, order, r) ==
    [ret |-> r.ret, path |-> path, exc |-> r.exc, op |-> name, order |-> order,
     maxEntries |-> maxEntries, recursive |-> recursive]

ListInit ==
    /\ heap = <<>>
    /\ instances = <<>>
    /\ remote = <<>>
    /\ calls = <<>>
    /\ threads = <<>>
    /\ kinds \in {[fs |-> k, front |-> "mem", back |-> "mem"] : k \in Kinds}
    /\ fs = NewDir
    /\ front = NewDir
    /\ back = NewDir
    /\ stream = NoStream
    /\ last = ListOp("none", <<>>, FALSE, <<>>, <<>>, [ret |-> <<>>, exc |-> "none"])

ListSet(path) ==
    LET r == FsSet(kinds.fs, fs, path, Bytes(<<>>))
    IN  /\ NodeCount(r.tree) <= MaxNodes
        /\ fs' = r.tree
        /\ last' = ListOp("set", path, FALSE, <<>>, <<>>, [ret |-> <<>>, exc |-> r.exc])
        /\ UNCHANGED <<heap, instances, remote, calls, threads, front, back, kinds, stream>>

ListListdir(path, recursive, maxEntries, order) ==
    /\ last' = ListOp("listdir", path, recursive, maxEntries, order,
                      FsListdir(kinds.fs, fs, path, recursive, maxEntries, order))
    /\ UNCHANGED <<heap, instances, remote, calls, threads, fs, front, back, kinds, stream>>

ListListFiles(prefix, order) ==
    /\ last' = ListOp("listFiles", prefix, TRUE, <<>>, order,
                      ListFiles(kinds.fs, fs, prefix, order))
    /\ UNCHANGED <<heap, instances, remote, calls, threads, fs, front, back, kinds, stream>>

\* FileSystem.iterateFiles, for what it yields in all: subpathFilter(x) is
\* false for the paths in dropped (None: for none)
IterateFiles(kind, root, prefix, dropped, order) ==
    LET listed == ListFiles(kind, root, prefix, order)
    IN  IF listed.exc # "none" THEN listed
        ELSE [ret |-> SelectSeq(listed.ret, LAMBDA x : x \notin dropped), exc |-> "none"]

\* the paths a subpathFilter turns down: none, a directory, a file
Filters == {{}, {<<"a">>}, {<<"a", sep, "a">>}}

ListIterateFiles(prefix, dropped, order) ==
    /\ last' = [ret |-> IterateFiles(kinds.fs, fs, prefix, dropped, order).ret,
                path |-> prefix,
                exc |-> IterateFiles(kinds.fs, fs, prefix, dropped, order).exc,
                op |-> "iterateFiles", order |-> order, dropped |-> dropped]
    /\ UNCHANGED <<heap, instances, remote, calls, threads, fs, front, back, kinds, stream>>

ListNext ==
    \/ \E prefix \in Prefixes, dropped \in Filters, order \in Orders :
           ListIterateFiles(prefix, dropped, order)
    \/ \E path \in ListedPaths : ListSet(path)
    \/ \E path \in DirPaths, recursive \in BOOLEAN, maxEntries \in Limits, order \in Orders :
           ListListdir(path, recursive, maxEntries, order)
    \/ \E prefix \in Prefixes, order \in Orders : ListListFiles(prefix, order)

SpecList == ListInit /\ [][ListNext]_vars

\* the elements of a sequence
Range(seq) == {seq[i] : i \in 1..Len(seq)}

\* the path strings of the files of the tree
FilePaths(root) == {Render(e.path) : e \in {x \in Entries(root, <<>>) : x.kind = "FILE"}}

\* C12 as the specification states it: listFiles(prefix) returns, without
\* raising, exactly the full paths of the files whose path starts with prefix
C12_ListFiles ==
    last.op = "listFiles"
    => /\ last.exc = "none"
       /\ Range(last.ret) = {x \in FilePaths(fs) : StartsWith(x, LStrip(last.path))}

\* the listing the same call returns when it passes no maxEntries
Untruncated ==
    FsListdir(kinds.fs, fs, last.path, last.recursive, <<>>, last.order).ret

\* C13 as the specification states it: listdir(p, recursive, maxEntries=n)
\* returns exactly min(n, size of the untruncated listing) entries
C13_MaxEntries ==
    (last.op = "listdir" /\ last.exc = "none" /\ last.maxEntries # <<>>)
    => Len(last.ret) = IF last.maxEntries[1] < Len(Untruncated)
                       THEN last.maxEntries[1] ELSE Len(Untruncated)

\* the path vector listdir was called with
ListedDir == SplitOnSep(StripSeps(last.path))

\* the path strings of the entries below the listed directory: its direct
\* children, or with recursive every file and directory below it
Below(root, dir, recursive) ==
    {Render(e.path) : e \in {x \in Entries(root, <<>>) :
        /\ Above(dir, x.path)
        /\ recursive \/ Len(x.path) = Len(dir) + 1}}

\* every element of the sequence occurs once
NoDuplicates(seq) == \A i, j \in 1..Len(seq) : seq[i] = seq[j] => i = j

\* C14: on an InMemFileSystem listdir(p) of a directory returns the full
\* path of every direct child exactly once, with recursive=True every file
\* and directory below p exactly once; on a file or an absent path it raises
C14_InMemListdir ==
    (kinds.fs = "mem" /\ last.op = "listdir" /\ last.maxEntries = <<>>)
    => IF \/ ListedDir = <<>>
          \/ \E e \in Entries(fs, <<>>) : e.path = ListedDir /\ e.kind = "DIR"
       THEN /\ last.exc = "none"
            /\ NoDuplicates(last.ret)
            /\ Range(last.ret) = Below(fs, ListedDir, last.recursive)
       ELSE last.exc = "OSError"

\* a listing of a directory below the root: the child comes back under its
\* full path
C14_Witness ==
    /\ kinds.fs = "mem" /\ last.op = "listdir" /\ last.maxEntries = <<>>
    /\ last.path = <<sep, "a", sep>>
    /\ last.exc = "none" /\ last.ret = <<<<"a", sep, "ab">>>>

\* a recursive listing of the root that holds a directory and the file in it
C14_WitnessRecursive ==
    /\ kinds.fs = "mem" /\ last.op = "listdir" /\ last.maxEntries = <<>>
    /\ last.exc = "none" /\ last.recursive
    /\ Range(last.ret) = {<<"a">>, <<"a", sep, "a">>}

\* a listing of a file, which raises
C14_WitnessFile ==
    /\ kinds.fs = "mem" /\ last.op = "listdir" /\ last.exc = "OSError"
    /\ \E e \in Entries(fs, <<>>) : e.path = ListedDir /\ e.kind = "FILE"

-----------------------------------------------------------------------------
(* SpecRoot: a client that sets and removes paths, the root among them, on *)
(* an in-memory or a disk backend                                           *)

\* the spellings of the root
RootPaths == {<<>>, <<sep>>, <<sep, sep>>}

RootInit ==
    /\ heap = <<>>
    /\ instances = <<>>
    /\ remote = <<>>
    /\ calls = <<>>
    /\ threads = <<>>
    /\ kinds \in {[fs |-> k, front |-> "mem", back |-> "mem"] : k \in Kinds}
    /\ fs = NewDir
    /\ front = NewDir
    /\ back = NewDir
    /\ stream = NoStream
    /\ last = NoOp

RootSet(path, data) ==
    LET r == FsSet(kinds.fs, fs, path, Bytes(data))
    IN  /\ NodeCount(r.tree) <= MaxNodes
        /\ fs' = r.tree
        /\ last' = Op("set", path, Bytes(data), r)
        /\ UNCHANGED <<heap, instances, remote, calls, threads, front, back, kinds, stream>>

RootRm(path) ==
    LET r == FsRm(kinds.fs, fs, path)
    IN  /\ fs' = r.tree
        /\ last' = Op("rm", path, Bytes(<<>>), r)
        /\ UNCHANGED <<heap, instances, remote, calls, threads, front, back, kinds, stream>>

RootNext ==
    \E path \in Paths :
        \/ \E data \in Contents : RootSet(path, data)
        \/ RootRm(path)

SpecRoot == RootInit /\ [][RootNext]_vars

\* the root exists and is a directory, under each of its spellings
RootIsDir ==
    \A p \in RootPaths :
        /\ FsExists(kinds.fs, fs, p)
        /\ FsIsdir(kinds.fs, fs, p)
        /\ ~FsIsfile(kinds.fs, fs, p)

\* a set or rm addressed to the root leaves what the root holds as it was
C15_RootStep ==
    /\ RootIsDir'
    /\ (last'.op \in {"set", "rm"} /\ last'.path \in RootPaths)
       => /\ fs'.kind = "DIR"
          /\ fs'.children = fs.children

C15_WitnessRm ==
    /\ last.op = "rm" /\ last.path = <<sep>> /\ kinds.fs = "disk"
    /\ Entries(fs, <<>>) = {}

-----------------------------------------------------------------------------
(* The retry decorator of util.py.  A frame is one running call of a       *)
(* retry-wrapped function: its arguments of retry(), the position of the   *)
(* loop of retryWrapper, counts of what it has called and errors, the     *)
(* exceptions its function has raised, attempt by attempt.  An exception   *)
(* is a record [type, at, cause]: at is the attempt that raised it, cause  *)
(* holds the exception it was raised from.                                 *)

\* the largest value of retries
MaxRetries == 3

\* the exceptions the wrapped function raises
FuncErrors == {"OSError", "ValueError"}

\* the values of caughtExceptions: the default (Exception,), and (OSError,)
CaughtSets == {"Exception", "OSError"}

Error(type, at) == [type |-> type, at |-> at, cause |-> <<>>]

\* except caughtExceptions: every exception is an Exception
Catches(caughtExceptions, e) == caughtExceptions = "Exception" \/ e.type = caughtExceptions

\* a test that never takes ExceededRetriesException for what it is
ReraisedNever(e) == FALSE

\* isinstance(e, ExceededRetriesException)
Reraised(e) == e.type = "ExceededRetriesException"

\* a test that gives up one attempt late
ExhaustedLate(ix, retries) == ix >= retries

\* ix + 1 >= retries
Exhausted(ix, retries) == ix + 1 >= retries

\* a call of the function retry(...) has wrapped; nested: the function calls
\* another retry-wrapped function and returns what that returns
NewFrame(retries, caughtExceptions, onExceptionMember, args, nested) ==
    [ret |-> <<>>, exc |-> <<>>, caughtExceptions |-> caughtExceptions, ix |-> 0,
     retries |-> retries, onExceptionMember |-> onExceptionMember, args |-> args,
     nested |-> nested, failures |-> 0, invoked |-> 0, member |-> 0,
     onException |-> 0, pc |-> "for", errors |-> <<>>]

\* the retry-wrapped function a nested function calls: a bare retry(retries=n)
InnerFrame(retries) == NewFrame(retries, "Exception", FALSE, FALSE, FALSE)

RaiseFrom(frame, e) == [frame EXCEPT !.pc = "raised", !.exc = <<e>>]

\* retryWrapper from the return of func up to the callbacks: the function
\* returned (exc is <<>>) or raised exc[1]
AfterFunc(frame, ret, exc) ==
    IF exc = <<>> THEN [frame EXCEPT !.pc = "returned", !.ret = ret]
    ELSE LET e == exc[1]
         IN  IF ~Catches(frame.caughtExceptions, e) THEN RaiseFrom(frame, e)
             ELSE IF Reraised(e) THEN RaiseFrom(frame, e)
             ELSE IF Exhausted(frame.ix, frame.retries)
                  THEN RaiseFrom([frame EXCEPT !.failures = @ + 1],
                                 [type |-> "ExceededRetriesException",
                                  at |-> frame.invoked,
                                  cause |-> <<e>>])
             ELSE [frame EXCEPT !.failures = @ + 1, !.pc = "onException"]

\* the running frame
Top == calls[Len(calls)]

WithTop(frame) == [calls EXCEPT ![Len(calls)] = frame]

RetryInit ==
    /\ heap = <<>>
    /\ instances = <<>>
    /\ remote = <<>>
    /\ fs = NewDir
    /\ front = NewDir
    /\ back = NewDir
    /\ kinds = [fs |-> "mem", front |-> "mem", back |-> "mem"]
    /\ stream = NoStream
    /\ last = NoOp
    /\ threads = <<>>
    /\ calls \in {<<NewFrame(retries, caught, member, args, nested)>> :
                     retries \in 0..MaxRetries, caught \in CaughtSets,
                     member \in BOOLEAN, args \in BOOLEAN, nested \in BOOLEAN}

\* for ix in range(retries): func(*args, **kwargs), of a function that
\* returns or raises by itself
RetryInvoke(outcome) ==
    /\ Top.pc = "for" /\ Top.ix < Top.retries /\ ~Top.nested
    /\ LET exc == IF outcome = "return" THEN <<>>
                  ELSE <<Error(outcome, Top.invoked + 1)>>
           frame == [Top EXCEPT !.invoked = @ + 1, !.errors = @ \o exc]
       IN  calls' = WithTop(AfterFunc(frame, <<"result", frame.invoked>>, exc))
    /\ UNCHANGED <<heap, instances, remote, fs, front, back, kinds, stream, last, threads>>

\* func(*args, **kwargs) of a function that calls a retry-wrapped function
RetryInvokeNested(retries) ==
    /\ Top.pc = "for" /\ Top.ix < Top.retries /\ Top.nested
    /\ calls' = Append(WithTop([Top EXCEPT !.invoked = @ + 1, !.pc = "func"]),
                       InnerFrame(retries))
    /\ UNCHANGED <<heap, instances, remote, fs, front, back, kinds, stream, last, threads>>

\* the inner call is over: the function returns its result or lets its
\* exception through
RetryInnerDone ==
    /\ Len(calls) = 2 /\ Top.pc \in {"returned", "raised"}
    /\ calls' = <<AfterFunc([calls[1] EXCEPT !.errors = @ \o Top.exc],
                            <<"result", calls[1].invoked>>, Top.exc)>>
    /\ UNCHANGED <<heap, instances, remote, fs, front, back, kinds, stream, last, threads>>

\* the loop is over without a return or a raise: the wrapper returns None
RetryFallThrough ==
    /\ Top.pc = "for" /\ Top.ix >= Top.retries
    /\ calls' = WithTop([Top EXCEPT !.pc = "returned", !.ret = <<"None">>])
    /\ UNCHANGED <<heap, instances, remote, fs, front, back, kinds, stream, last, threads>>

\* onException(), which returns or raises
RetryOnException(raises) ==
    /\ Top.pc = "onException"
    /\ LET frame == [Top EXCEPT !.onException = @ + 1]
       IN  calls' = WithTop(
               IF raises THEN RaiseFrom(frame, Error("CallbackError", frame.invoked))
               ELSE IF frame.onExceptionMember
                    THEN [frame EXCEPT !.pc = "onExceptionMember"]
               ELSE [frame EXCEPT !.pc = "for", !.ix = @ + 1])
    /\ UNCHANGED <<heap, instances, remote, fs, front, back, kinds, stream, last, threads>>

\* getattr(self, onExceptionMember)(), which returns or raises
RetryOnExceptionMember(raises) ==
    /\ Top.pc = "onExceptionMember"
    /\ calls' = WithTop(
           IF ~Top.args THEN RaiseFrom(Top, Error("Exception", Top.invoked))
           ELSE LET frame == [Top EXCEPT !.member = @ + 1]
                IN  IF raises
                    THEN RaiseFrom(frame, Error("CallbackError", frame.invoked))
                    ELSE [frame EXCEPT !.pc = "for", !.ix = @ + 1])
    /\ UNCHANGED <<heap, instances, remote, fs, front, back, kinds, stream, last, threads>>

RetryNext ==
    \/ \E outcome \in FuncErrors \cup {"return"} : RetryInvoke(outcome)
    \/ \E retries \in 1..MaxRetries : RetryInvokeNested(retries)
    \/ RetryInnerDone
    \/ RetryFallThrough
    \/ \E raises \in BOOLEAN : RetryOnException(raises) \/ RetryOnExceptionMember(raises)

SpecRetry == RetryInit /\ [][RetryNext]_vars

\* the call of the frame is over
Done(frame) == frame.pc \in {"returned", "raised"}

\* the frame has raised an exception of one of the types
RaisedOneOf(frame, types) == frame.pc = "raised" /\ frame.exc[1].type \in types

\* every attempt of the frame has raised a retry-eligible error, none is left
AllAttemptsFailed(frame) == Done(frame) /\ frame.failures = frame.invoked

\* the callbacks ran once after each failure but the last, and the call
\* raised ExceededRetriesException from the error of the last attempt
ExhaustedAfterCallbacks(frame) ==
    /\ frame.onException = frame.retries - 1
    /\ frame.onExceptionMember => frame.member = frame.retries - 1
    /\ RaisedOneOf(frame, {"ExceededRetriesException"})
    /\ Len(frame.errors) = frame.retries
    /\ frame.exc[1].cause = <<frame.errors[frame.retries]>>

\* the successful attempt is the last one, and its result is returned
ReturnsResult(frame) ==
    frame.pc = "returned"
    => /\ frame.ret = <<"result", frame.invoked>>
       /\ frame.failures = frame.invoked - 1

CallbacksReturned(frame) == ~RaisedOneOf(frame, {"CallbackError", "Exception"})

C16_WitnessReturn ==
    /\ Len(calls) = 1 /\ calls[1].pc = "returned" /\ calls[1].invoked = 2
    /\ calls[1].onException = 1

\* the step in which a retry-wrapped function gets ExceededRetriesException
\* from the retry-wrapped function it called: the outer call raises it as it
\* is, without a callback, and a call that is over stays over
C17_NestedStep ==
    /\ (Len(calls) = 2 /\ Len(calls') = 1
        /\ RaisedOneOf(calls[2], {"ExceededRetriesException"}))
       => /\ calls'[1].pc = "raised"
          /\ calls'[1].exc = calls[2].exc
          /\ calls'[1].invoked = calls[1].invoked
          /\ calls'[1].onException = calls[1].onException
          /\ calls'[1].member = calls[1].member
    /\ (Len(calls) = 1 /\ Done(calls[1])) => calls' = calls

\* C17: when a retry-wrapped function calls another retry-wrapped function
\* that exhausts its retries, the ExceededRetriesException goes through the
\* outer wrapper at once: no further invocation, no callback, whatever the
\* outer caughtExceptions
C17_Nested == [][C17_NestedStep]_vars

\* an outer call that catches Exception has raised the inner call's
\* ExceededRetriesException at its first attempt
C17_Witness ==
    /\ Len(calls) = 1 /\ calls[1].nested /\ calls[1].caughtExceptions = "Exception"
    /\ calls[1].retries = MaxRetries
    /\ RaisedOneOf(calls[1], {"ExceededRetriesException"})
    /\ calls[1].failures = 0 /\ calls[1].invoked = 1 /\ calls[1].onException = 0

\* C18 as stated: every call of a retry-wrapped function returns the wrapped
\* function's result, raises ExceededRetriesException or lets through an error
\* of the wrapped function that is not retry-eligible, for every value of
\* retries and every callback
C18_Outcomes ==
    \A i \in 1..Len(calls) :
        Done(calls[i])
        => \/ /\ calls[i].pc = "returned"
              /\ calls[i].invoked >= 1
              /\ calls[i].ret = <<"result", calls[i].invoked>>
           \/ RaisedOneOf(calls[i], {"ExceededRetriesException"})
           \/ /\ RaisedOneOf(calls[i], FuncErrors)
              /\ ~Catches(calls[i].caughtExceptions, calls[i].exc[1])

-----------------------------------------------------------------------------
(* DiskFileSystem._rooted: the translation of a path of the file system to *)
(* a location of the operating system.  A location is a path string as     *)
(* above, absolute; the file system's root directory is /a, and /ab is a  *)
(* directory beside it.                                                    *)

\* the longest path handed to _rooted, in tokens
MaxTokens == 4

\* self._rootPath
RootPath == <<sep, "a">>

\* the tokens of the paths: names, the parent directory, the separator
RootedTokens == {"a", "ab", "..", sep}

RECURSIVE StringsOver(_, _)
\* the strings of at most n tokens
StringsOver(tokens, n) ==
    IF n = 0 THEN {<<>>}
    ELSE LET shorter == StringsOver(tokens, n - 1)
         IN  shorter \cup {Append(s, tok) : s \in {w \in shorter : Len(w) = n - 1},
                                            tok \in tokens}

RECURSIVE Segments(_, _)
\* string.split(sep) without the empty strings, seg being the segment so far
Segments(string, seg) ==
    IF string = <<>> THEN (IF seg = <<>> THEN <<>> ELSE <<seg>>)
    ELSE IF Head(string) = sep
         THEN (IF seg = <<>> THEN <<>> ELSE <<seg>>) \o Segments(Tail(string), <<>>)
    ELSE Segments(Tail(string), seg \o <<Head(string)>>)

RECURSIVE Collapse(_, _)
\* os.path.normpath of an absolute path, on its segments: .. drops the
\* segment before it, and is dropped at the top
Collapse(done, segments) ==
    IF segments = <<>> THEN done
    ELSE IF Head(segments) = <<"..">>
         THEN Collapse(IF done = <<>> THEN <<>> ELSE ButLast(done), Tail(segments))
    ELSE Collapse(Append(done, Head(segments)), Tail(segments))

RECURSIVE Joined(_)
\* the segments joined by the separator, each with one in front
Joined(segments) ==
    IF segments = <<>> THEN <<>> ELSE <<sep>> \o Head(segments) \o Joined(Tail(segments))

\* os.path.normpath of an absolute path
NormPath(string) ==
    LET segments == Collapse(<<>>, Segments(string, <<>>))
    IN  IF segments = <<>> THEN <<sep>> ELSE Joined(segments)

\* FileSystem.joinPaths(root, path) for an absolute root
JoinRooted(root, path) == NormPath(RStrip(root \o <<sep>> \o StripSeps(path)))

\* DiskFileSystem._rooted
Rooted(path) ==
    LET rootedPath == JoinRooted(RootPath, path)
    IN  IF ~StartsWith(rootedPath, RootPath) THEN [ret |-> <<>>, exc |-> "Exception"]
        ELSE [ret |-> rootedPath, exc |-> "none"]

RootedInit ==
    /\ heap = <<>>
    /\ instances = <<>>
    /\ remote = <<>>
    /\ fs = NewDir
    /\ front = NewDir
    /\ back = NewDir
    /\ kinds = [fs |-> "disk", front |-> "mem", back |-> "mem"]
    /\ stream = NoStream
    /\ calls = <<>>
    /\ threads = <<>>
    /\ last = NoOp

RootedCall(path) ==
    /\ last' = Op("_rooted", path, Bytes(<<>>), Rooted(path))
    /\ UNCHANGED <<heap, instances, remote, fs, front, back, kinds, stream, calls, threads>>

RootedNext == \E path \in StringsOver(RootedTokens, MaxTokens) : RootedCall(path)

SpecRooted == RootedInit /\ [][RootedNext]_vars

\* the location is the root directory or lies inside it
Inside(location) ==
    LET segments == Segments(location, <<>>)
        root == Segments(RootPath, <<>>)
    IN  Len(segments) >= Len(root) /\ SubSeq(segments, 1, Len(root)) = root

\* C19 as stated: _rooted(p) raises the unsafe-path error or returns a
\* location that is the root directory or lies inside it
C19_Rooted ==
    last.op = "_rooted" => last.exc = "Exception" \/ Inside(last.ret)

-----------------------------------------------------------------------------
(* SpecThreads: threads that call get on one CachedFileSystem whose back   *)
(* does not change.  A thread is a record [pc, path, data, ret, exc]: the  *)
(* step of CachedFileSystem.get it is about to take, the path it asked     *)
(* for, the bytes it got from the back, and how its call ended.  The       *)
(* front's set takes several steps: on disk the directories are made, the  *)
(* file is opened (created or truncated), then written and closed; in      *)
(* memory the directories are made, then the file is put in its parent.    *)

\* the number of threads
MaxThreads == 2

ThreadIds == 1..MaxThreads

\* the paths the threads get
ThreadPaths == {<<"a">>, <<"a", sep, "a">>}

Thread(pc, path, data, ret, exc) ==
    [data |-> data, ret |-> ret, path |-> path, exc |-> exc, pc |-> pc]

ThreadsInit ==
    /\ heap = <<>>
    /\ instances = <<>>
    /\ remote = <<>>
    /\ kinds \in {[fs |-> "mem", front |-> kf, back |-> kb] : kf \in Kinds, kb \in Kinds}
    /\ fs = NewDir
    /\ front = NewDir
    /\ back \in SeedTrees(kinds.back)
    /\ stream = NoStream
    /\ last = NoOp
    /\ calls = <<>>
    /\ threads = [t \in ThreadIds |-> Thread("idle", <<>>, <<>>, <<>>, "none")]

\* the thread at its next step
Goes(t, thread) ==
    /\ threads' = [threads EXCEPT ![t] = thread]
    /\ UNCHANGED <<heap, instances, remote, fs, back, kinds, stream, last, calls>>

\* a thread calls get(path)
ThreadCall(t, path) ==
    /\ threads[t].pc \in {"idle", "returned", "raised"}
    /\ Goes(t, Thread("exists", path, <<>>, <<>>, "none"))
    /\ UNCHANGED front

\* if self.frontFileSystem.exists(path)
ThreadExists(t) ==
    /\ threads[t].pc = "exists"
    /\ Goes(t, [threads[t] EXCEPT
                   !.pc = IF FsExists(kinds.front, front, threads[t].path)
                          THEN "front.get" ELSE "back.get"])
    /\ UNCHANGED front

\* return self.frontFileSystem.get(path)
ThreadFrontGet(t) ==
    /\ threads[t].pc = "front.get"
    /\ LET r == FsGet(kinds.front, front, threads[t].path)
       IN  Goes(t, [threads[t] EXCEPT
                       !.pc = IF r.exc = "none" THEN "returned" ELSE "raised",
                       !.ret = r.ret, !.exc = r.exc])
    /\ UNCHANGED front

\* data = self.backFileSystem.get(path)
ThreadBackGet(t) ==
    /\ threads[t].pc = "back.get"
    /\ LET r == FsGet(kinds.back, back, threads[t].path)
       IN  Goes(t, [threads[t] EXCEPT
                       !.pc = IF r.exc = "none" THEN "makedirs" ELSE "raised",
                       !.data = r.ret, !.exc = r.exc])
    /\ UNCHANGED front

\* frontFileSystem.set, first step: the directories above the file are made
\* (os.makedirs of safeOpen, _walkTo with createAsWeGo)
ThreadMakedirs(t) ==
    /\ threads[t].pc = "makedirs"
    /\ front' = IF kinds.front = "mem"
                THEN WalkTo(front, ButLast(SplitPath(threads[t].path)), TRUE).tree
                ELSE OsMakedirs(front, ButLast(DiskRooted(threads[t].path)))
    /\ Goes(t, [threads[t] EXCEPT !.pc = IF kinds.front = "mem" THEN "put" ELSE "open"])

\* DiskFileSystem.set, second step: open(path, "wb") creates the file or
\* truncates it
ThreadOpen(t) ==
    /\ threads[t].pc = "open"
    /\ LET vec == DiskRooted(threads[t].path)
       IN  IF OsCanOpenForWrite(front, vec)
           THEN /\ front' = OsWriteFile(front, vec, <<>>)
                /\ Goes(t, [threads[t] EXCEPT !.pc = "write"])
           ELSE /\ front' = front
                /\ Goes(t, [threads[t] EXCEPT !.pc = "raised", !.exc = "OSError"])

\* DiskFileSystem.set, last step: file.write(content) and the close of the
\* file; get returns data
ThreadWrite(t) ==
    /\ threads[t].pc = "write"
    /\ LET r == DiskSet(front, threads[t].path, Bytes(threads[t].data))
       IN  /\ front' = r.tree
           /\ Goes(t, [threads[t] EXCEPT
                          !.pc = IF r.exc = "none" THEN "returned" ELSE "raised",
                          !.ret = IF r.exc = "none" THEN threads[t].data ELSE <<>>,
                          !.exc = r.exc])

\* InMemFileSystem.set, last step: parentDir.contents[filename] = the new
\* file; get returns data
ThreadPut(t) ==
    /\ threads[t].pc = "put"
    /\ LET r == InMemSet(front, threads[t].path, Bytes(threads[t].data))
       IN  /\ front' = r.tree
           /\ Goes(t, [threads[t] EXCEPT
                          !.pc = IF r.exc = "none" THEN "returned" ELSE "raised",
                          !.ret = IF r.exc = "none" THEN threads[t].data ELSE <<>>,
                          !.exc = r.exc])

ThreadsNext ==
    \E t \in ThreadIds :
        \/ \E path \in ThreadPaths : ThreadCall(t, path)
        \/ ThreadExists(t)
        \/ ThreadFrontGet(t)
        \/ ThreadBackGet(t)
        \/ ThreadMakedirs(t)
        \/ ThreadOpen(t)
        \/ ThreadWrite(t)
        \/ ThreadPut(t)

SpecThreads == ThreadsInit /\ [][ThreadsNext]_vars

\* C20 as stated: every get(p) of a thread returns exactly the back's
\* content of p, under every interleaving of the steps of the front's
\* exists, get and set
C20_ConcurrentGet ==
    \A t \in ThreadIds :
        threads[t].pc \in {"returned", "raised"}
        => LET r == FsGet(kinds.back, back, threads[t].path)
           IN  threads[t].ret = r.ret /\ threads[t].exc = r.exc

-----------------------------------------------------------------------------
(* InMemFileSystem objects that share InMemFileSystem.ROOT.  The nodes are *)
(* objects: heap[id] is the _Metadata object with identity id, and the     *)
(* children of a directory map names to identities.  An instance holds a   *)
(* reference to the node of its root (self._filesystem), not a path.  A    *)
(* node no directory refers to any more stays in the heap for those who    *)
(* still hold a reference to it.                                           *)

\* the most node objects the heap holds
MaxObjects == 6

\* InMemFileSystem.ROOT
ROOT == 1

RECURSIVE HeapWalkTo(_, _, _, _)
\* InMemFileSystem._walkTo from the node start: exc, the node reached, and
\* the heap as the walk leaves it
HeapWalkTo(h, start, pathVec, createAsWeGo) ==
    IF pathVec = <<>> THEN [heap |-> h, node |-> start, exc |-> "none"]
    ELSE IF h[start].kind # "DIR" THEN [heap |-> h, node |-> start, exc |-> "OSError"]
    ELSE IF Head(pathVec) \notin DOMAIN h[start].children
         THEN IF createAsWeGo
              THEN HeapWalkTo(
                       Append([h EXCEPT ![start].children = Put(@, Head(pathVec), Len(h) + 1)],
                              NewDir),
                       Len(h) + 1, Tail(pathVec), createAsWeGo)
              ELSE [heap |-> h, node |-> start, exc |-> "OSError"]
    ELSE HeapWalkTo(h, h[start].children[Head(pathVec)], Tail(pathVec), createAsWeGo)

\* InMemFileSystem(rootPath)
Construct(h, rootPath) ==
    LET walk == HeapWalkTo(h, ROOT, SplitPath(rootPath), TRUE)
    IN  [heap |-> walk.heap,
         instance |-> [rootPath |-> rootPath, filesystem |-> walk.node,
                       isFresh |-> FALSE]]

\* InMemFileSystem(): a new directory tmpdir below /tmp
ConstructFresh(h, tmpdir) ==
    LET walk == HeapWalkTo(h, ROOT, <<"tmp">>, TRUE)
        newDir == Len(walk.heap) + 1
    IN  [heap |-> Append([walk.heap EXCEPT
                              ![walk.node].children = Put(@, tmpdir, newDir)], NewDir),
         instance |-> [rootPath |-> <<sep, "tmp", sep, tmpdir>>, filesystem |-> newDir,
                       isFresh |-> TRUE]]

\* the result of an operation on the heap
HeapResult(h, ret, exc) == [heap |-> h, ret |-> ret, exc |-> exc]

\* InMemFileSystem.exists through an instance
HeapExists(h, instance, path) ==
    HeapWalkTo(h, instance.filesystem, SplitPath(path), FALSE).exc = "none"

\* InMemFileSystem.get through an instance
HeapGet(h, instance, path) ==
    LET walk == HeapWalkTo(h, instance.filesystem, SplitPath(path), FALSE)
    IN  IF walk.exc # "none" THEN HeapResult(h, <<>>, walk.exc)
        ELSE IF h[walk.node].kind # "FILE" THEN HeapResult(h, <<>>, "OSError")
        ELSE HeapResult(h, h[walk.node].data, "none")

\* InMemFileSystem.set of bytes through an instance
HeapSet(h, instance, path, data) ==
    IF path = <<>> THEN HeapResult(h, <<>>, "OSError")
    ELSE
    LET pathVec == SplitPath(path)
        walk == HeapWalkTo(h, instance.filesystem, ButLast(pathVec), TRUE)
    IN  IF walk.exc # "none" THEN HeapResult(walk.heap, <<>>, walk.exc)
        ELSE IF pathVec = <<>> THEN HeapResult(walk.heap, <<>>, "IndexError")
        ELSE IF walk.heap[walk.node].kind # "DIR"
             THEN HeapResult(walk.heap, <<>>, "TypeError")
        ELSE HeapResult(
                Append([walk.heap EXCEPT
                           ![walk.node].children =
                               Put(@, pathVec[Len(pathVec)], Len(walk.heap) + 1)],
                       NewFile(data)),
                <<>>, "none")

\* InMemFileSystem.rm through an instance
HeapRm(h, instance, path) ==
    IF path = <<>> THEN HeapResult(h, <<>>, "OSError")
    ELSE
    LET pathVec == SplitPath(path)
        walk == HeapWalkTo(h, instance.filesystem, ButLast(pathVec), FALSE)
    IN  IF walk.exc # "none" THEN HeapResult(h, <<>>, walk.exc)
        ELSE IF pathVec = <<>> THEN HeapResult(h, <<>>, "IndexError")
        ELSE
        LET parentDirMeta == h[walk.node]
            filename == pathVec[Len(pathVec)]
        IN  IF parentDirMeta.kind # "DIR" THEN HeapResult(h, <<>>, "OSError")
            ELSE IF filename \notin DOMAIN parentDirMeta.children
                 THEN HeapResult(h, <<>>, "OSError")
            ELSE
            LET fileMeta == h[parentDirMeta.children[filename]]
            IN  IF fileMeta.kind = "FILE" \/ fileMeta.children = EmptyMap
                THEN HeapResult([h EXCEPT ![walk.node].children = Del(@, filename)],
                                <<>>, "none")
                ELSE HeapResult(h, <<>>, "OSError")

\* a tearDown that does not ask whether the instance made its root
HeapTearDownAny(h, instance) ==
    IF h[instance.filesystem].children # EmptyMap
    THEN HeapResult([h EXCEPT ![instance.filesystem].children = EmptyMap], <<>>, "none")
    ELSE HeapResult(h, <<>>, "none")

\* InMemFileSystem.tearDown
HeapTearDown(h, instance) ==
    IF h[instance.filesystem].children # EmptyMap /\ instance.isFresh
    THEN HeapResult([h EXCEPT ![instance.filesystem].children = EmptyMap], <<>>, "none")
    ELSE HeapResult(h, <<>>, "none")

\* SpecHeap: three instances on one heap: one rooted at the ROOT (R is ""),
\* one at R/a, and a fresh one, which makes /tmp/k

\* the paths handed to the instances
HeapPaths == {<<"a">>, <<"q">>, <<"a", sep, "q">>}

\* the instances in the order of their construction
Built ==
    LET first == Construct(<<NewDir>>, <<>>)
        second == Construct(first.heap, <<"a">>)
        third == ConstructFresh(second.heap, "k")
    IN  [heap |-> third.heap,
         instances |-> <<first.instance, second.instance, third.instance>>]

\* the record of an operation through instance i in the variable last
HeapOp(name, i, path, data, r) ==
    [data |-> data, ret |-> r.ret, path |-> path, exc |-> r.exc, op |-> name,
     instance |-> i]

HeapInit ==
    /\ fs = NewDir
    /\ front = NewDir
    /\ back = NewDir
    /\ kinds = [fs |-> "mem", front |-> "mem", back |-> "mem"]
    /\ stream = NoStream
    /\ calls = <<>>
    /\ threads = <<>>
    /\ remote = <<>>
    /\ heap = Built.heap
    /\ instances = Built.instances
    /\ last = HeapOp("none", 1, <<>>, <<>>, HeapResult(<<>>, <<>>, "none"))

\* the step of an operation on the heap with result r
HeapStep(name, i, path, data, r) ==
    /\ Len(r.heap) <= MaxObjects
    /\ heap' = r.heap
    /\ last' = HeapOp(name, i, path, data, r)
    /\ UNCHANGED <<fs, front, back, kinds, stream, calls, threads, remote, instances>>

InstanceSet(i, path, data) ==
    HeapStep("set", i, path, data, HeapSet(heap, instances[i], path, data))

InstanceRm(i, path) ==
    HeapStep("rm", i, path, <<>>, HeapRm(heap, instances[i], path))

InstanceTearDown(i) ==
    HeapStep("tearDown", i, <<>>, <<>>, HeapTearDown(heap, instances[i]))

HeapNext ==
    \E i \in 1..3 :
        \/ \E path \in HeapPaths, data \in Contents : InstanceSet(i, path, data)
        \/ \E path \in HeapPaths : InstanceRm(i, path)
        \/ InstanceTearDown(i)

SpecHeap == HeapInit /\ [][HeapNext]_vars

RECURSIVE Seen(_, _, _)
\* what is to be seen below the node id: every entry as [path, node, kind,
\* data], at being the path of the node
Seen(h, id, at) ==
    UNION {{[data |-> h[h[id].children[n]].data, path |-> at \o <<n>>,
             kind |-> h[h[id].children[n]].kind, node |-> h[id].children[n]]}
           \cup Seen(h, h[id].children[n], at \o <<n>>) : n \in DOMAIN h[id].children}

\* what is to be seen through an instance
SeenThrough(h, instance) == Seen(h, instance.filesystem, <<>>)

\* the node objects below the root of an instance
NodesBelow(h, instance) == {e.node : e \in SeenThrough(h, instance)}

C21_TearDownStep ==
    last'.op = "tearDown"
    => LET torn == instances[last'.instance]
       IN  IF torn.isFresh
           THEN /\ SeenThrough(heap', torn) = {}
                /\ \A j \in 1..Len(instances) :
                       SeenThrough(heap', instances[j])
                           = {e \in SeenThrough(heap, instances[j]) :
                                  e.node \notin NodesBelow(heap, torn)}
           ELSE \A j \in 1..Len(instances) :
                    SeenThrough(heap', instances[j]) = SeenThrough(heap, instances[j])

\* C21: tearDown of an InMemFileSystem made with an explicit rootPath leaves
\* what every instance sees as it was; tearDown of a fresh instance empties
\* its own subtree and leaves every entry outside of it
C21_TearDown == [][C21_TearDownStep]_vars

\* the fresh instance has been torn down and its file is gone, while the
\* instance at the ROOT still sees a file
C21_Witness ==
    /\ last.op = "tearDown" /\ last.instance = 3
    /\ SeenThrough(heap, instances[3]) = {}
    /\ \E id \in 1..Len(heap) :
           /\ heap[id].kind = "FILE"
           /\ \A dir \in 1..Len(heap) :
                  \A n \in DOMAIN heap[dir].children : heap[dir].children[n] # id
    /\ \E e \in SeenThrough(heap, instances[1]) : e.kind = "FILE"

\* an instance made with a rootPath that holds a file has been torn down
C21_WitnessKept ==
    /\ last.op = "tearDown" /\ last.instance = 2
    /\ \E e \in SeenThrough(heap, instances[2]) : e.kind = "FILE"

\* C22 as stated: a file is visible at q through the instance rooted at R/a
\* exactly when it is visible at a/q through the instance rooted at R, and
\* with the same content
C22_SameTree ==
    \A q \in HeapPaths :
        LET below == HeapGet(heap, instances[2], q)
            above == HeapGet(heap, instances[1], <<"a", sep>> \o q)
        IN  /\ (below.exc = "none") = (above.exc = "none")
            /\ below.exc = "none" => below.ret = above.ret

\* the paths of the directories above the file at the path string x
DirsAbove(x) == {Render(vec) : vec \in Ancestors(SplitOnSep(x)) \ {<<>>}}

\* C23 as stated, for the prefixes "" and "/", under which listFiles lists
\* the whole tree: iterateFiles(prefix, subpathFilter) yields exactly once
\* every file that passes the filter, no directory, and no file below a
\* directory the filter turns down
C23_IterateFiles ==
    (last.op = "iterateFiles" /\ LStrip(last.path) = <<>>)
    => /\ last.exc = "none"
       /\ NoDuplicates(last.ret)
       /\ Range(last.ret) = {x \in FilePaths(fs) :
                                /\ x \notin last.dropped
                                /\ DirsAbove(x) \cap last.dropped = {}}

-----------------------------------------------------------------------------
(* The remote backends.  An exception is the name of its class; the state   *)
(* a call runs in is a record of the server's tree, the connection the      *)
(* instance holds, and the fault the server's next request ends with.       *)

\* the classes an exception is an instance of
Supers(type) ==
    {type, "Exception"}
    \cup (IF type \in {"FileNotFoundError", "ConnectionError", "TimeoutError",
                       "socket.timeout"} THEN {"OSError"} ELSE {})
    \cup (IF type = "socket.timeout" THEN {"TimeoutError"} ELSE {})
    \cup (IF type \in {"ftplib.error_temp", "ftplib.error_perm"}
          THEN {"ftplib.Error"} ELSE {})

\* isinstance(e, classes)
IsInstance(type, classes) == Supers(type) \cap classes # {}

\* getattr(self, onExceptionMember)(): retryWrapper hands over no argument
MemberArgs == 0

\* the outcome of a call in a state
Result(s, ret, exc) == [s |-> s, ret |-> ret, exc |-> exc]

\* os.path.dirname of a path without a leading separator
Dirname(path) == IF HasSep(path) THEN RStrip(BeforeLastSep(path)) ELSE <<>>

-----------------------------------------------------------------------------
(* SftpFileSystem: sftp_filesystem.py, an instance with the rootPath ""     *)

\* retry(caughtExceptions=(OSError, socket.timeout), ...): retries is 3
SftpRetries == 3

SftpCaught == {"OSError", "socket.timeout"}

\* def handleException(self, exc): the arguments it takes after self
SftpHandleExceptionParams == 1

\* the methods of SftpFileSystem and of FileSystem that take streams
SftpAttributes ==
    {"get", "getInto", "_getInto", "set", "_setFromByteStream",
     "_checkByteStreamForGet", "_checkByteStreamForSet",
     "_checkContentInputTypeForSet", "chunkedByteStreamPipe"}

\* SftpFileSystem._rooted
SftpRooted(path) == JoinPaths(<<>>, path)

\* _disconnect
SftpDisconnect(s) == [s EXCEPT !.client = FALSE, !.transport = FALSE]

\* _connect
SftpConnect(s) == [SftpDisconnect(s) EXCEPT !.client = TRUE, !.transport = TRUE]

\* getClient: _ensureConnected
SftpGetClient(s) == IF ~s.client THEN SftpConnect(s) ELSE s

\* a request of the client: the outcome of the server, or the fault that
\* is due
SftpRequest(s, answer) ==
    LET c == SftpGetClient(s)
    IN  IF c.fault # "none" THEN Result([c EXCEPT !.fault = "none"], <<>>, c.fault)
        ELSE Result([c EXCEPT !.tree = answer.tree], answer.ret, answer.exc)

\* getClient().lstat(path)
SftpLstat(s, path) ==
    LET at == OsLookup(s.tree, SplitOnSep(path))
    IN  SftpRequest(s, IF at.found THEN Return(s.tree, NoStream, <<at.node.kind>>)
                       ELSE Raise(s.tree, NoStream, "FileNotFoundError"))

\* getClient().mkdir(path)
SftpMkdir(s, path) ==
    LET vec == SplitOnSep(path)
        parent == OsLookup(s.tree, ButLast(vec))
    IN  SftpRequest(s,
            IF vec = <<>> \/ ~parent.found \/ parent.node.kind # "DIR"
               \/ OsLookup(s.tree, vec).found
            THEN Raise(s.tree, NoStream, "OSError")
            ELSE Return(Replace(s.tree, ButLast(vec),
                            [parent.node EXCEPT !.children =
                                 Put(@, vec[Len(vec)], NewDir)]),
                        NoStream, <<>>))

\* getClient().putfo(byteStream, path)
SftpPutfo(s, byteStream, path) ==
    LET vec == SplitOnSep(path)
    IN  SftpRequest(s,
            IF ~OsCanOpenForWrite(s.tree, vec) THEN Raise(s.tree, NoStream, "OSError")
            ELSE Return(OsWriteFile(s.tree, vec, StreamRead(byteStream).ret),
                        NoStream, <<>>))

\* getClient().getfo(path, byteStream): the bytes it writes to byteStream
SftpGetfo(s, path) ==
    LET at == OsLookup(s.tree, SplitOnSep(path))
    IN  SftpRequest(s,
            IF ~at.found THEN Raise(s.tree, NoStream, "FileNotFoundError")
            ELSE IF at.node.kind = "DIR" THEN Raise(s.tree, NoStream, "OSError")
            ELSE Return(s.tree, NoStream, at.node.data))

\* handleException(self, exc), called with the arguments passed
SftpHandleException(s, passed) ==
    IF passed # SftpHandleExceptionParams THEN Result(s, <<>>, "TypeError")
    ELSE Result(SftpConnect(s), <<>>, "none")

\* self._streamPositionManagement(byteStream, doFun=...): the attribute is
\* looked up before doFun can run
SftpStreamPositionManagement(s, doFun) ==
    IF "_streamPositionManagement" \notin SftpAttributes
    THEN Result(s, <<>>, "AttributeError")
    ELSE doFun

RECURSIVE SftpFunc(_, _, _)
RECURSIVE SftpRetry(_, _, _, _)

\* a call of a function wrapped by reconnectOnException
SftpWrapped(name, s, arg) == SftpRetry(0, name, s, arg)

\* the bodies of the wrapped functions
SftpFunc(name, s, arg) ==
    CASE name = "_existsRooted" ->
           LET r == SftpLstat(s, arg)
           IN  IF r.exc = "FileNotFoundError" THEN Result(r.s, <<FALSE>>, "none")
               ELSE IF r.exc # "none" THEN r
               ELSE Result(r.s, <<TRUE>>, "none")
      [] name = "isfile" ->
           LET r == SftpLstat(s, SftpRooted(arg))
           IN  IF r.exc = "FileNotFoundError" THEN Result(r.s, <<FALSE>>, "none")
               ELSE IF r.exc # "none" THEN r
               ELSE Result(r.s, <<r.ret[1] # "DIR">>, "none")
      [] name = "_makeParentDirsIfNeeded" ->
           LET directory == Dirname(arg)
               there == SftpWrapped("_existsRooted", s, directory)
           IN  IF directory = <<>> THEN Result(s, <<>>, "none")
               ELSE IF there.exc # "none" THEN there
               ELSE IF ~there.ret[1]
               THEN LET above == SftpWrapped("_makeParentDirsIfNeeded", there.s,
                                             directory)
                    IN  IF above.exc # "none" THEN above
                        ELSE SftpMkdir(above.s, directory)
               ELSE LET file == SftpWrapped("isfile", there.s, directory)
                    IN  IF file.exc # "none" THEN file
                        ELSE IF file.ret[1] THEN Result(file.s, <<>>, "OSError")
                        ELSE Result(file.s, <<>>, "none")
      [] name = "_setFromByteStream" ->
           SftpStreamPositionManagement(s, SftpPutfo(s, arg.byteStream, arg.rootedPath))
      [] name = "_getInto" ->
           SftpStreamPositionManagement(s, SftpGetfo(s, SftpRooted(arg)))

\* retryWrapper of reconnectOnException, from attempt ix on
SftpRetry(ix, name, s, arg) ==
    IF ix >= SftpRetries THEN Result(s, <<"None">>, "none")
    ELSE LET r == SftpFunc(name, s, arg)
         IN  IF r.exc = "none" \/ ~IsInstance(r.exc, SftpCaught) THEN r
             ELSE IF r.exc = "ExceededRetriesException" THEN r
             ELSE IF Exhausted(ix, SftpRetries)
                  THEN Result(r.s, <<>>, "ExceededRetriesException")
             ELSE LET h == SftpHandleException(r.s, MemberArgs)
                  IN  IF h.exc # "none" THEN h
                      ELSE SftpRetry(ix + 1, name, h.s, arg)

\* SftpFileSystem.set
SftpSet(s, path, content) ==
    LET rootedPath == SftpRooted(path)
        made == SftpWrapped("_makeParentDirsIfNeeded", s, rootedPath)
        byteStream == IF content.type = "bytes"
                      THEN [data |-> content.data, pos |-> 0, seekable |-> TRUE]
                      ELSE AsStream(content)
    IN  IF made.exc # "none" THEN made
        ELSE SftpWrapped("_setFromByteStream", made.s,
                         [byteStream |-> byteStream, rootedPath |-> rootedPath])

\* SftpFileSystem.get
SftpGet(s, path) ==
    LET file == SftpWrapped("isfile", s, path)
    IN  IF file.exc # "none" THEN file
        ELSE IF ~file.ret[1] THEN Result(file.s, <<>>, "OSError")
        ELSE SftpWrapped("_getInto", file.s, path)

-----------------------------------------------------------------------------
(* SpecSftp: a client of one SftpFileSystem; fs is the tree of the server,  *)
(* which other clients of the server write to as well                       *)

SftpPaths == {<<"a">>, <<"q">>, <<"a", sep, "q">>}

\* the faults of the server's next request
SftpFaults == {"none", "socket.timeout"}

\* the state a call starts in
SftpState(fault) ==
    [tree |-> fs, client |-> remote.client, transport |-> remote.transport,
     fault |-> fault]

SftpOp(name, path, data, fault, r) ==
    [data |-> data, ret |-> r.ret, path |-> path, exc |-> r.exc, op |-> name,
     fault |-> fault]

SftpInit ==
    /\ heap = <<>>
    /\ instances = <<>>
    /\ calls = <<>>
    /\ threads = <<>>
    /\ fs = NewDir
    /\ front = NewDir
    /\ back = NewDir
    /\ kinds = [fs |-> "sftp", front |-> "mem", back |-> "mem"]
    /\ stream = NoStream
    /\ remote = [client |-> FALSE, transport |-> FALSE]
    /\ last = SftpOp("none", <<>>, <<>>, "none", Result(<<>>, <<>>, "none"))

SftpStep(name, path, data, fault, r) ==
    /\ fs' = r.s.tree
    /\ remote' = [client |-> r.s.client, transport |-> r.s.transport]
    /\ last' = SftpOp(name, path, data, fault, r)
    /\ UNCHANGED <<heap, instances, calls, threads, front, back, kinds, stream>>

SftpCallSet(path, data, fault) ==
    SftpStep("set", path, data, fault, SftpSet(SftpState(fault), path, Bytes(data)))

SftpCallGet(path, fault) ==
    SftpStep("get", path, <<>>, fault, SftpGet(SftpState(fault), path))

\* tearDown
SftpTearDown ==
    SftpStep("tearDown", <<>>, <<>>, "none",
             Result(SftpDisconnect(SftpState("none")), <<>>, "none"))

\* another client of the server stores a file
SftpServerStore(path, data) ==
    LET vec == SplitOnSep(path)
        made == OsMakedirs(fs, ButLast(vec))
    IN  /\ OsCanOpenForWrite(made, vec)
        /\ SftpStep("store", path, data, "none",
                    Result([SftpState("none") EXCEPT !.tree = OsWriteFile(made, vec, data)],
                           <<>>, "none"))

SftpNext ==
    \/ \E path \in SftpPaths, data \in Payloads, fault \in SftpFaults :
           SftpCallSet(path, data, fault)
    \/ \E path \in SftpPaths, fault \in SftpFaults : SftpCallGet(path, fault)
    \/ SftpTearDown
    \/ \E path \in SftpPaths, data \in Payloads : SftpServerStore(path, data)

SpecSftp == SftpInit /\ [][SftpNext]_vars

\* the file the server holds at a path
SftpHolds(path, data) ==
    LET at == OsLookup(fs, SplitOnSep(path))
    IN  at.found /\ at.node.kind = "FILE" /\ at.node.data = data

\* C24: a set or get of an SftpFileSystem that meets no fault of the
\* connection ends without an error other than an IO error of the server; a
\* set that returns leaves the server holding the content at the path, and a
\* get that returns returns what the server holds there, so that get(p)
\* after set(p, v) returns v
C24_SftpTransfer ==
    (last.op \in {"set", "get"} /\ last.fault = "none")
    => /\ last.exc = "none" \/ IsInstance(last.exc, {"OSError"})
       /\ (last.op = "set" /\ last.exc = "none") => SftpHolds(last.path, last.data)
       /\ (last.op = "get" /\ last.exc = "none") => SftpHolds(last.path, last.ret)

-----------------------------------------------------------------------------
(* FtpFileSystem: ftp_filesystem.py, the connection of an instance.  client *)
(* is the ftplib.FTP object the instance holds (0: None), connected tells   *)
(* whether that object has a connection, open holds the connections the     *)
(* instance has opened and not closed, peak the most it has had open.       *)

\* the largest reading of the clock
MaxTime == 3

\* the most ftplib.FTP objects an instance makes
MaxClients == 3

\* retry(retries=10, ...)
FtpRetries == 10

\* connectionRefreshSeconds of the instance
ConnectionRefreshSeconds == 1

\* caughtExceptions
FtpCaught ==
    {"FtpFileSystemCaughtException", "ConnectionError", "TimeoutError",
     "ftplib.error_temp", "socket.timeout"}

\* ftplib.all_errors
FtpAllErrors == {"ftplib.Error", "OSError", "EOFError"}

\* def handleException(self, exc): the arguments it takes after self
FtpHandleExceptionParams == 1

\* _disconnect: QUIT, with the errors of ftplib dropped; an FTP object
\* without a connection fails in quit() with an AttributeError
FtpDisconnect(s) ==
    IF s.client = 0 THEN Result(s, <<>>, "none")
    ELSE LET gone == [s EXCEPT !.client = 0, !.connected = FALSE,
                               !.open = @ \ {s.client}]
         IN  IF ~s.connected /\ ~IsInstance("AttributeError", FtpAllErrors)
             THEN Result(gone, <<>>, "AttributeError")
             ELSE Result(gone, <<>>, "none")

\* _connect
FtpConnect(s) ==
    LET d == FtpDisconnect(s)
        made == [d.s EXCEPT !.clientCreationTime = d.s.now, !.client = d.s.made + 1,
                            !.made = @ + 1]
    IN  IF d.exc # "none" THEN d
        ELSE IF made.connectFault # "none"
        THEN Result([made EXCEPT !.connectFault = "none"], <<>>, made.connectFault)
        ELSE Result([made EXCEPT !.connected = TRUE,
                                 !.open = @ \cup {made.client},
                                 !.peak = IF Cardinality(made.open) + 1 > @
                                          THEN Cardinality(made.open) + 1 ELSE @],
                    <<>>, "none")

\* handleException(self, exc), called with the arguments passed
FtpHandleException(s, passed) ==
    IF passed # FtpHandleExceptionParams THEN Result(s, <<>>, "TypeError")
    ELSE FtpDisconnect(s)

RECURSIVE FtpFunc(_, _, _)
RECURSIVE FtpRetry(_, _, _, _)

\* a call of a function wrapped by retryOnDisconnect
FtpWrapped(name, s, arg) == FtpRetry(0, name, s, arg)

\* a command sent through getClient(): the answer of the server, or the
\* fault that is due
FtpCommand(s, answer) ==
    LET c == FtpWrapped("getClient", s, <<>>)
    IN  IF c.exc # "none" THEN c
        ELSE IF c.s.fault # "none"
        THEN Result([c.s EXCEPT !.fault = "none"], <<>>, c.s.fault)
        ELSE Result([c.s EXCEPT !.tree = answer.tree], answer.ret, answer.exc)

\* the bodies of the wrapped functions
FtpFunc(name, s, arg) ==
    CASE name = "getClient" ->
           IF s.client = 0 \/ s.now - s.clientCreationTime > ConnectionRefreshSeconds
           THEN LET c == FtpConnect(s)
                IN  IF c.exc # "none" THEN c ELSE Result(c.s, <<c.s.client>>, "none")
           ELSE Result(s, <<s.client>>, "none")
      [] name = "_setFromByteStream" ->
           \* byteStream.seek(0); storbinary("STOR " + rootedPath, byteStream)
           LET vec == SplitOnSep(arg.rootedPath)
               byteStream == StreamSeek(arg.byteStream, 0)
           IN  FtpCommand(s,
                   IF ~OsCanOpenForWrite(s.tree, vec)
                   THEN Raise(s.tree, NoStream, "ftplib.error_perm")
                   ELSE Return(OsWriteFile(s.tree, vec, StreamRead(byteStream).ret),
                               NoStream, <<>>))
      [] name = "_getInto" ->
           \* byteStream.seek(0); retrbinary("RETR " + path, byteStream.write)
           LET at == OsLookup(s.tree, SplitOnSep(arg))
           IN  FtpCommand(s,
                   IF ~at.found \/ at.node.kind # "FILE"
                   THEN Raise(s.tree, NoStream, "ftplib.error_perm")
                   ELSE Return(s.tree, NoStream, at.node.data))

\* retryWrapper of retryOnDisconnect, from attempt ix on
FtpRetry(ix, name, s, arg) ==
    IF ix >= FtpRetries THEN Result(s, <<"None">>, "none")
    ELSE LET r == FtpFunc(name, s, arg)
         IN  IF r.exc = "none" \/ ~IsInstance(r.exc, FtpCaught) THEN r
             ELSE IF r.exc = "ExceededRetriesException" THEN r
             ELSE IF Exhausted(ix, FtpRetries)
                  THEN Result(r.s, <<>>, "ExceededRetriesException")
             ELSE LET h == FtpHandleException(r.s, MemberArgs)
                  IN  IF h.exc # "none" THEN h
                      ELSE FtpRetry(ix + 1, name, h.s, arg)

-----------------------------------------------------------------------------
(* SpecFtp: a client of one FtpFileSystem while the clock runs; fs is the   *)
(* tree of the server                                                       *)

FtpPaths == {<<"a">>, <<"q">>}

\* the faults of the server's next command: none, two transient ones
FtpFaults == {"none", "ConnectionError", "ftplib.error_temp"}

\* the faults of the next connect(): none, a refused connection, an
\* unreachable network
ConnectFaults == {"none", "ConnectionError", "OSError"}

\* the state a call starts in
FtpState(fault, connectFault) ==
    [tree |-> fs, made |-> remote.made, client |-> remote.client, fault |-> fault,
     connected |-> remote.connected, open |-> remote.open,
     clientCreationTime |-> remote.clientCreationTime, now |-> remote.now,
     connectFault |-> connectFault, peak |-> remote.peak]

FtpOp(name, path, data, fault, connectFault, r) ==
    [data |-> data, ret |-> r.ret, path |-> path, exc |-> r.exc, op |-> name,
     fault |-> fault, connectFault |-> connectFault]

FtpInit ==
    /\ heap = <<>>
    /\ instances = <<>>
    /\ calls = <<>>
    /\ threads = <<>>
    /\ fs = NewDir
    /\ front = NewDir
    /\ back = NewDir
    /\ kinds = [fs |-> "ftp", front |-> "mem", back |-> "mem"]
    /\ stream = NoStream
    /\ remote = [made |-> 0, client |-> 0, connected |-> FALSE, open |-> {},
                 clientCreationTime |-> 0, now |-> 0, peak |-> 0]
    /\ last = FtpOp("none", <<>>, <<>>, "none", "none", Result(<<>>, <<>>, "none"))

FtpStep(name, path, data, fault, connectFault, r) ==
    /\ r.s.made <= MaxClients
    /\ fs' = r.s.tree
    /\ remote' = [made |-> r.s.made, client |-> r.s.client,
                  connected |-> r.s.connected, open |-> r.s.open,
                  clientCreationTime |-> r.s.clientCreationTime,
                  now |-> r.s.now, peak |-> r.s.peak]
    /\ last' = FtpOp(name, path, data, fault, connectFault, r)
    /\ UNCHANGED <<heap, instances, calls, threads, front, back, kinds, stream>>

\* time.time() moves on
FtpTick ==
    /\ remote.now < MaxTime
    /\ remote' = [remote EXCEPT !.now = @ + 1]
    /\ UNCHANGED <<heap, instances, calls, threads, fs, front, back, kinds, stream, last>>

FtpCallGetClient(connectFault) ==
    FtpStep("getClient", <<>>, <<>>, "none", connectFault,
            FtpWrapped("getClient", FtpState("none", connectFault), <<>>))

FtpCallSetFromByteStream(path, data, fault) ==
    FtpStep("_setFromByteStream", path, data, fault, "none",
            FtpWrapped("_setFromByteStream", FtpState(fault, "none"),
                       [byteStream |-> [data |-> data, pos |-> 0, seekable |-> TRUE],
                        rootedPath |-> path]))

FtpCallGetInto(path, fault) ==
    FtpStep("_getInto", path, <<>>, fault, "none",
            FtpWrapped("_getInto", FtpState(fault, "none"), path))

\* tearDown
FtpTearDown ==
    FtpStep("tearDown", <<>>, <<>>, "none", "none",
            FtpDisconnect(FtpState("none", "none")))

FtpNext ==
    \/ FtpTick
    \/ \E connectFault \in ConnectFaults : FtpCallGetClient(connectFault)
    \/ \E path \in FtpPaths, data \in Payloads, fault \in FtpFaults :
           FtpCallSetFromByteStream(path, data, fault)
    \/ \E path \in FtpPaths, fault \in FtpFaults : FtpCallGetInto(path, fault)
    \/ FtpTearDown

SpecFtp == FtpInit /\ [][FtpNext]_vars

\* the file the server holds at a path
FtpHolds(path, data) ==
    LET at == OsLookup(fs, SplitOnSep(path))
    IN  at.found /\ at.node.kind = "FILE" /\ at.node.data = data

\* C25: an operation wrapped by retryOnDisconnect whose first attempt meets
\* one transient error is attempted again and yields the operation's result:
\* the upload returns with the server holding the data, the download returns
\* the file the server holds
C25_RetryOnDisconnect ==
    (last.fault # "none" /\ IsInstance(last.fault, FtpCaught))
    => /\ last.op = "_setFromByteStream"
          => last.exc = "none" /\ FtpHolds(last.path, last.data)
       /\ (last.op = "_getInto" /\ \E data \in Payloads : FtpHolds(last.path, data))
          => last.exc = "none" /\ FtpHolds(last.path, last.ret)

\* C26: a client getClient returns is the one the instance holds, has a
\* connection, and was connected at most connectionRefreshSeconds ago; the
\* instance never has more than one connection open; after tearDown it has
\* no client and no open connection
C26_GetClient ==
    /\ Cardinality(remote.open) <= 1 /\ remote.peak <= 1
    /\ (last.op = "getClient" /\ last.exc = "none")
       => /\ last.ret = <<remote.client>>
          /\ remote.connected /\ remote.open = {remote.client}
          /\ remote.now - remote.clientCreationTime <= ConnectionRefreshSeconds
    /\ last.op = "tearDown" => remote.client = 0 /\ remote.open = {}

-----------------------------------------------------------------------------
(* FtpFileSystem._nlstListdir without recursion, on a server that answers   *)
(* NLST with the queried path in front of every name, or without it.  The  *)
(* answers of the server and the listing are strings of characters.         *)

\* x[n:]
Drop(x, n) == SubSeq(x, n + 1, Len(x))

\* FileSystem.joinPaths("", path, file) on strings of characters
JoinChars(path, file) ==
    LET segments == Segments(path, <<>>) \o Segments(file, <<>>)
    IN  IF segments = <<>> THEN <<>> ELSE Tail(Joined(segments))

\* the order the server lists names in
NlstOrder == <<"a", "ab", "b", "q">>

\* client.nlst(rootedPath) of a directory
Nlst(root, withPrefix, rootedPath) ==
    LET names == Ordered(DOMAIN OsLookup(root, SplitOnSep(rootedPath)).node.children,
                         NlstOrder)
    IN  [i \in 1..Len(names) |->
            IF withPrefix /\ rootedPath # <<>>
            THEN Chars(rootedPath) \o <<sep>> \o Spell(names[i])
            ELSE Spell(names[i])]

\* _adjustNlstResults: the names, and self._nlstReturnsPathPrefix after it
AdjustNlstResults(flag, nlst, rootedPath) ==
    LET prefixLen == Len(Chars(rootedPath))
        cut == [i \in 1..Len(nlst) |-> Drop(nlst[i], prefixLen)]
        all == \A i \in 1..Len(nlst) :
                   /\ Len(nlst[i]) >= prefixLen
                   /\ SubSeq(nlst[i], 1, prefixLen) = Chars(rootedPath)
    IN  IF prefixLen = 0 \/ flag = "False" THEN [ret |-> nlst, flag |-> flag]
        ELSE IF flag = "True" THEN [ret |-> cut, flag |-> flag]
        ELSE IF all THEN [ret |-> cut, flag |-> "True"]
        ELSE [ret |-> nlst, flag |-> "False"]

\* _nlstListdir(result, path) with recursive=False and maxEntries=None, of
\* an instance whose rootPath is ""
NlstListdir(root, withPrefix, flag, path) ==
    LET rootedPath == JoinPaths(<<>>, path)
        lst == AdjustNlstResults(flag, Nlst(root, withPrefix, rootedPath), rootedPath)
    IN  [ret |-> [i \in 1..Len(lst.ret) |-> JoinChars(Chars(path), lst.ret[i])],
         flag |-> lst.flag]

\* the directories of the server, and the names of the files in them
NlstDirs == {"a", "q"}

NlstFiles == {"ab", "b"}

NlstOp(name, path, r) == [ret |-> r.ret, path |-> path, op |-> name]

NlstInit ==
    /\ heap = <<>>
    /\ instances = <<>>
    /\ calls = <<>>
    /\ threads = <<>>
    /\ fs = [NewDir EXCEPT !.children = [n \in NlstDirs |-> NewDir]]
    /\ front = NewDir
    /\ back = NewDir
    /\ kinds = [fs |-> "ftp", front |-> "mem", back |-> "mem"]
    /\ stream = NoStream
    /\ remote \in {[withPrefix |-> w, nlstReturnsPathPrefix |-> "None"] :
                      w \in BOOLEAN}
    /\ last = NlstOp("none", <<>>, [ret |-> <<>>])

\* a file is stored in a directory of the server
NlstStore(dir, name, data) ==
    /\ fs' = OsWriteFile(fs, <<dir, name>>, data)
    /\ last' = NlstOp("store", <<dir, sep, name>>, [ret |-> <<>>])
    /\ UNCHANGED <<heap, instances, calls, threads, front, back, kinds, stream, remote>>

\* a file is removed from a directory of the server
NlstRemove(dir, name) ==
    /\ OsLookup(fs, <<dir, name>>).found
    /\ fs' = OsUnlink(fs, <<dir, name>>)
    /\ last' = NlstOp("remove", <<dir, sep, name>>, [ret |-> <<>>])
    /\ UNCHANGED <<heap, instances, calls, threads, front, back, kinds, stream, remote>>

NlstCallListdir(path) ==
    LET r == NlstListdir(fs, remote.withPrefix, remote.nlstReturnsPathPrefix, path)
    IN  /\ remote' = [remote EXCEPT !.nlstReturnsPathPrefix = r.flag]
        /\ last' = NlstOp("listdir", path, r)
        /\ UNCHANGED <<heap, instances, calls, threads, fs, front, back, kinds, stream>>

NlstNext ==
    \/ \E dir \in NlstDirs, name \in NlstFiles, data \in {<<>>, <<1>>} :
           NlstStore(dir, name, data)
    \/ \E dir \in NlstDirs, name \in NlstFiles : NlstRemove(dir, name)
    \/ \E path \in {<<>>} \cup {<<dir>> : dir \in NlstDirs} : NlstCallListdir(path)

SpecNlst == NlstInit /\ [][NlstNext]_vars

\* the paths of the entries of a directory, as strings of characters
NlstEntries(root, path) ==
    {Chars(JoinPaths(path, <<n>>)) :
        n \in DOMAIN OsLookup(root, SplitOnSep(path)).node.children}

\* C27: once the first NLST listing of a directory other than the root has
\* set _nlstReturnsPathPrefix, the flag never changes and tells what the
\* server does, and every listing yields the path of each entry of the
\* directory with its name unaltered, on both kinds of server and whatever
\* the directory of the first listing held
C27_NlstStep ==
    /\ remote.nlstReturnsPathPrefix # "None"
       => remote'.nlstReturnsPathPrefix = remote.nlstReturnsPathPrefix
    /\ remote'.nlstReturnsPathPrefix # "None"
       => remote'.nlstReturnsPathPrefix = (IF remote'.withPrefix THEN "True" ELSE "False")
    /\ last'.op = "listdir"
       => NoDuplicates(last'.ret) /\ Range(last'.ret) = NlstEntries(fs', last'.path)

C27_Nlst == [][C27_NlstStep]_vars

-----------------------------------------------------------------------------
(* retryIfIrrelevantFailure of s3_filesystem.py.  The message of an error   *)
(* is a string of pieces; a substring is a run of pieces.  An amount of     *)
(* seconds is a fraction [num, den].  calls holds the one running call of   *)
(* inner.                                                                   *)

\* the most attempts of a call
MaxAttempts == 11

\* sub in msg
Contains(msg, sub) ==
    \E i \in 0..(Len(msg) - Len(sub)) : SubSeq(msg, i + 1, i + Len(sub)) = sub

\* the messages of the errors the wrapped function raises
S3Messages ==
    {<<"An error occurred (", "SlowDown", ")", " when calling PutObject">>,
     <<"SlowDown", ": Please reduce your request rate">>,
     <<"Could not connect to the endpoint URL", ": https://s3">>,
     <<"An error occurred (", "InternalError", ")", " when calling PutObject">>,
     <<"[Errno 104] ", "Connection reset by peer">>,
     <<"Remote end closed connection without response">>,
     <<"An error occurred (", "503", ")", " (", "reached max retries", ": 4)">>,
     <<"An error occurred (", "503", ")", ": ", "Service Unavailable">>,
     <<"An error occurred (", "AccessDenied", ")", " when calling PutObject">>}

\* the chain of tests of inner that leaves out "reached max retries"
IrrelevantFailureFewer(msg) ==
    IF Contains(msg, <<"An error occurred (", "SlowDown", ")">>) THEN TRUE
    ELSE IF Contains(msg, <<"Could not connect to the endpoint URL">>) THEN TRUE
    ELSE IF Contains(msg, <<"InternalError">>) THEN TRUE
    ELSE IF Contains(msg, <<"Connection reset by peer">>) THEN TRUE
    ELSE IF Contains(msg, <<"Remote end closed connection without response">>) THEN TRUE
    ELSE IF Contains(msg, <<"Service Unavailable">>) THEN TRUE
    ELSE FALSE

\* the chain of tests of inner on str(e): pass (TRUE) or raise (FALSE)
IrrelevantFailure(msg) ==
    IF Contains(msg, <<"An error occurred (", "SlowDown", ")">>) THEN TRUE
    ELSE IF Contains(msg, <<"Could not connect to the endpoint URL">>) THEN TRUE
    ELSE IF Contains(msg, <<"InternalError">>) THEN TRUE
    ELSE IF Contains(msg, <<"Connection reset by peer">>) THEN TRUE
    ELSE IF Contains(msg, <<"Remote end closed connection without response">>) THEN TRUE
    ELSE IF Contains(msg, <<"reached max retries">>) THEN TRUE
    ELSE IF Contains(msg, <<"Service Unavailable">>) THEN TRUE
    ELSE FALSE

\* slowdownAmount = 0.5
SlowdownStart == [num |-> 1, den |-> 2]

\* min(10, slowdownAmount * 1.5)
SlowdownNext(amount) ==
    LET grown == [num |-> amount.num * 3, den |-> amount.den * 2]
    IN  IF 10 * grown.den < grown.num THEN [num |-> 10, den |-> 1] ELSE grown

\* a call of inner before its first attempt
S3Inner ==
    [ret |-> <<>>, exc |-> <<>>, pc |-> "try", attempts |-> 0,
     slowdownAmount |-> SlowdownStart, sleeps |-> <<>>, message |-> <<>>]

S3RetryInit ==
    /\ heap = <<>>
    /\ instances = <<>>
    /\ remote = <<>>
    /\ threads = <<>>
    /\ fs = NewDir
    /\ front = NewDir
    /\ back = NewDir
    /\ kinds = [fs |-> "s3", front |-> "mem", back |-> "mem"]
    /\ stream = NoStream
    /\ last = NoOp
    /\ calls = <<S3Inner>>

\* try: return f(*args, **kwargs), and the tests of the except clause
S3Attempt(outcome) ==
    /\ Top.pc = "try" /\ Top.attempts < MaxAttempts
    /\ LET frame == [Top EXCEPT !.attempts = @ + 1, !.message = outcome]
       IN  calls' = WithTop(
               IF outcome = <<>>
               THEN [frame EXCEPT !.pc = "returned", !.ret = <<"result", frame.attempts>>]
               ELSE IF IrrelevantFailure(outcome) THEN [frame EXCEPT !.pc = "sleep"]
               ELSE [frame EXCEPT !.pc = "raised", !.exc = outcome])
    /\ UNCHANGED <<heap, instances, remote, fs, front, back, kinds, stream, last, threads>>

\* time.sleep(slowdownAmount); slowdownAmount = min(10, slowdownAmount * 1.5)
S3Sleep ==
    /\ Top.pc = "sleep"
    /\ calls' = WithTop([Top EXCEPT !.pc = "try",
                                    !.sleeps = Append(@, Top.slowdownAmount),
                                    !.slowdownAmount = SlowdownNext(@)])
    /\ UNCHANGED <<heap, instances, remote, fs, front, back, kinds, stream, last, threads>>

S3RetryNext ==
    \/ \E outcome \in S3Messages \cup {<<>>} : S3Attempt(outcome)
    \/ S3Sleep

SpecS3Retry == S3RetryInit /\ [][S3RetryNext]_vars

RECURSIVE Pow(_, _)
Pow(b, n) == IF n = 0 THEN 1 ELSE b * Pow(b, n - 1)

\* the fraction is min(10, 0.5 * 1.5^(k-1))
IsKthSleep(amount, k) ==
    IF 5 * Pow(3, k - 1) <= 100 * Pow(2, k - 1)
    THEN amount.num * 2 * Pow(2, k - 1) = amount.den * Pow(3, k - 1)
    ELSE amount.num = 10 * amount.den

\* what a step of a call wrapped by retryIfIrrelevantFailure does, the
\* transient substrings being those of the set given
S3RetryStep(transient) ==
    LET before == calls[1]
        after == calls'[1]
        msg == after.message
    IN  /\ after.attempts = before.attempts + 1
           => IF msg = <<>>
              THEN after.pc = "returned" /\ after.ret = <<"result", after.attempts>>
              ELSE IF \E sub \in transient : Contains(msg, sub)
              THEN after.pc = "sleep" /\ after.exc = <<>>
              ELSE after.pc = "raised" /\ after.exc = msg
        /\ before.pc = "sleep"
           => /\ after.pc = "try" /\ after.attempts = before.attempts
              /\ Len(after.sleeps) = after.attempts
              /\ \A k \in 1..Len(after.sleeps) : IsKthSleep(after.sleeps[k], k)
        /\ before.pc \in {"returned", "raised"} => after = before

\* C28 as stated: the seven substrings being SlowDown, Could not connect to
\* the endpoint URL, InternalError, Connection reset by peer, Remote end
\* closed connection without response, reached max retries and Service
\* Unavailable, a call wrapped by retryIfIrrelevantFailure returns the result
\* of its first successful attempt, sleeps min(10, 0.5 * 1.5^(k-1)) seconds
\* and tries again after its k-th error with one of the substrings, however
\* many there were, and raises at once an error without any of them
C28_AsStated ==
    [][S3RetryStep({<<"SlowDown">>, <<"Could not connect to the endpoint URL">>,
                    <<"InternalError">>, <<"Connection reset by peer">>,
                    <<"Remote end closed connection without response">>,
                    <<"reached max retries">>, <<"Service Unavailable">>})]_vars

\* C28 amended: the same with An error occurred (SlowDown) as the first
\* substring
C28_Retry ==
    [][S3RetryStep({<<"An error occurred (", "SlowDown", ")">>,
                    <<"Could not connect to the endpoint URL">>,
                    <<"InternalError">>, <<"Connection reset by peer">>,
                    <<"Remote end closed connection without response">>,
                    <<"reached max retries">>, <<"Service Unavailable">>})]_vars

\* a call that returns after ten errors, the last sleeps being of 10 seconds
C28_Witness ==
    /\ Len(calls) = 1 /\ Top.pc = "returned" /\ Top.attempts = 11
    /\ Len(Top.sleeps) = 10 /\ Top.sleeps[10] = [num |-> 10, den |-> 1]
    /\ Top.sleeps[1] = [num |-> 1, den |-> 2]

\* a call that raises an error without a transient substring after a retry
C28_WitnessRaise ==
    /\ Len(calls) = 1 /\ Top.pc = "raised" /\ Top.attempts = 2
    /\ Contains(Top.exc, <<"AccessDenied">>)

-----------------------------------------------------------------------------
(* S3FileSystem.set: s3_filesystem.py, of an instance with the keyPrefix "" *)
(* over a bucket, fs, that holds objects under keys of one name.  An        *)
(* exception is a record of its class and its message; a fault of an upload *)
(* is the number of bytes upload_fileobj reads before it raises, and the    *)
(* message of what it raises.                                               *)

S3Error(type, message) == [type |-> type, message |-> message]

S3Outcome(tree, s, exc, attempts) ==
    [stream |-> s, exc |-> exc, tree |-> tree, attempts |-> attempts]

\* stream.read(n)
StreamReadSome(s, n) ==
    [s EXCEPT !.pos = IF s.pos + n > Len(s.data) THEN Len(s.data) ELSE s.pos + n]

\* _setByteStream: seek(0, io.SEEK_END), seek(0), upload_fileobj
S3SetByteStream(tree, key, byteStream, faults) ==
    LET start == StreamSeek(StreamSeek(byteStream, Len(byteStream.data)), 0)
    IN  IF faults # <<>>
        THEN S3Outcome(tree, StreamReadSome(start, Head(faults).read),
                       <<S3Error("Exception", Head(faults).message)>>, 1)
        ELSE S3Outcome(OsWriteFile(tree, SplitOnSep(key), StreamRead(start).ret),
                       StreamRead(start).stream, <<>>, 1)

\* the body of set: content is bytes, or the stream of the caller
S3SetBody(tree, path, content, faults) ==
    LET key == JoinPaths(<<>>, path)
        byteStream == AsStream(content)
        sent == S3SetByteStream(tree, key, [byteStream EXCEPT !.seekable = TRUE], faults)
    IN  IF content.type # "bytes" /\ CheckByteStreamForSet(byteStream) # "none"
        THEN S3Outcome(tree, byteStream,
                       <<S3Error(CheckByteStreamForSet(byteStream),
                                 <<"Cannot set from byte-stream">>)>>, 0)
        ELSE IF sent.exc # <<>>
        THEN S3Outcome(sent.tree,
                       IF content.type = "bytes" THEN byteStream
                       ELSE [sent.stream EXCEPT !.seekable = byteStream.seekable],
                       <<S3Error("OSError", <<"Failed to set ">> \o path
                                            \o <<" with error ">>
                                            \o sent.exc[1].message)>>, 1)
        ELSE S3Outcome(sent.tree,
                       IF content.type = "bytes" THEN byteStream
                       ELSE [sent.stream EXCEPT !.seekable = byteStream.seekable],
                       <<>>, 1)

RECURSIVE S3Set(_, _, _, _)
\* set wrapped by retryIfIrrelevantFailure: the attempts of inner, faults
\* holding the fault of each upload that fails
S3Set(tree, path, content, faults) ==
    LET r == S3SetBody(tree, path, content, faults)
        rest == S3Set(r.tree, path,
                      IF content.type = "bytes" THEN content ELSE AsContent(r.stream),
                      IF r.attempts = 0 THEN faults ELSE Tail(faults))
    IN  IF r.exc = <<>> THEN r
        ELSE IF ~IrrelevantFailure(r.exc[1].message) THEN r
        ELSE [rest EXCEPT !.attempts = @ + r.attempts]

\* the faults of the uploads of a call
UploadFaults ==
    {[read |-> 0, message |-> <<"[Errno 104] ", "Connection reset by peer">>],
     [read |-> 1, message |-> <<"[Errno 104] ", "Connection reset by peer">>],
     [read |-> 1, message |-> <<"An error occurred (", "AccessDenied", ")">>]}

\* the most uploads of a call that fail
MaxFaults == 2

S3Paths == {<<"a">>, <<"q">>}

\* the contents handed to set: bytes, and seekable streams at position 0
S3Contents ==
    {Bytes(data) : data \in Contents}
    \cup {AsContent([data |-> data, pos |-> 0, seekable |-> TRUE]) : data \in Contents}

S3Op(name, path, content, faults, r) ==
    [path |-> path, exc |-> IF r.exc = <<>> THEN "none" ELSE r.exc[1].type,
     content |-> content, op |-> name, attempts |-> r.attempts, faults |-> faults]

S3Init ==
    /\ heap = <<>>
    /\ instances = <<>>
    /\ remote = <<>>
    /\ calls = <<>>
    /\ threads = <<>>
    /\ fs = NewDir
    /\ front = NewDir
    /\ back = NewDir
    /\ kinds = [fs |-> "s3", front |-> "mem", back |-> "mem"]
    /\ stream = NoStream
    /\ last = S3Op("none", <<>>, Bytes(<<>>), <<>>, S3Outcome(fs, NoStream, <<>>, 0))

S3CallSet(path, content, faults) ==
    LET r == S3Set(fs, path, content, faults)
    IN  /\ fs' = r.tree
        /\ stream' = r.stream
        /\ last' = S3Op("set", path, content, faults, r)
        /\ UNCHANGED <<heap, instances, remote, calls, threads, front, back, kinds>>

S3Next ==
    \E path \in S3Paths, content \in S3Contents,
       faults \in UNION {[1..n -> UploadFaults] : n \in 0..MaxFaults} :
        S3CallSet(path, content, faults)

SpecS3 == S3Init /\ [][S3Next]_vars

\* the object the bucket holds under a path
S3Holds(path, data) ==
    LET at == OsLookup(fs, SplitOnSep(path))
    IN  at.found /\ at.node.kind = "FILE" /\ at.node.data = data

\* C29: a set whose uploads fail with transient errors only, each after it
\* has read a part of the content, starts the next upload at position 0 and
\* returns once an upload succeeds, the bucket holding the complete content,
\* be the content bytes or a stream of the caller
C29_SetRestarts ==
    (last.op = "set"
     /\ \A i \in 1..Len(last.faults) : IrrelevantFailure(last.faults[i].message))
    => /\ last.exc = "none"
       /\ last.attempts = Len(last.faults) + 1
       /\ S3Holds(last.path, last.content.data)

-----------------------------------------------------------------------------
(* CloningFileSystem.rm and the back *)

C30_RmStep ==
    last'.op = "rm"
    => LET vec == SplitOnSep(last'.path)
       IN  IF Removable(back, vec)
           THEN /\ Entries(back', <<>>) = {e \in Entries(back, <<>>) : e.path # vec}
                /\ ~FsExists(kinds.back, back', last'.path)
           ELSE back' = back /\ last'.exc # "none"

\* C30: every rm(p) of a CloningFileSystem runs the rm of the back, whether
\* the rm of the front returned or raised: a file or an empty directory at p
\* in the back is gone from the back after the call, and where the back has
\* no such entry its rm raises, the back is unchanged and the call raises
C30_RmBack == [][C30_RmStep]_vars

\* an rm that raised, the path being in the back only, has removed it there
C30_Witness ==
    /\ last.op = "rm" /\ last.afterBackSet /\ last.exc # "none"
    /\ ~FsExists(kinds.front, front, last.path)
    /\ ~FsExists(kinds.back, back, last.path)

-----------------------------------------------------------------------------
(* CloningFileSystem: a set of the front that fails *)

\* the set of the front that a composite's operation on path runs, with
\* the content it is handed, ends with an OSError
FrontSetFails(path, content) ==
    FsSet(kinds.front, front, path, content).exc = "OSError"

\* the front has not the path, the back hands out the file, and the front
\* then fails to store it
C31_ReadCase(op) ==
    /\ op.op \in {"get", "getInto"}
    /\ ~FsExists(kinds.front, front, op.path)
    /\ FsGet(kinds.back, back, op.path).exc = "none"
    /\ op.op = "getInto"
       => /\ op.content.seekable
          /\ FsGetInto(kinds.back, back, op.path, AsStream(op.content)).exc = "none"
    /\ FrontSetFails(op.path, Bytes(FsGet(kinds.back, back, op.path).ret))

\* the back stores the content and the front then fails to store it
C31_SetCase(op) ==
    /\ op.op = "set"
    /\ FsSet(kinds.back, back, op.path, op.content).exc = "none"
    /\ FrontSetFails(op.path, Bytes(Written(op.content)))

C31_FrontSetStep ==
    /\ C31_ReadCase(last')
       => /\ last'.exc = "none"
          /\ back' = back
          /\ last'.op = "get" => last'.ret = FsGet(kinds.back, back, last'.path).ret
    /\ C31_SetCase(last')
       => /\ last'.exc = "none"
          /\ Holds(kinds.back, back', last'.path, Written(last'.content))

\* C31: a get, getInto or set of a CloningFileSystem whose set of the front
\* fails with an IO error returns without an error, with the result and the
\* effect on the back of a run in which the front succeeded
C31_FrontSetFailure == [][C31_FrontSetStep]_vars

-----------------------------------------------------------------------------
(* CloseProtectedStream: close_protected_stream.py, over an io.BytesIO     *)

\* the bytes of a stream padded with zero bytes up to the position pos
Padded(data, pos) ==
    IF pos <= Len(data) THEN data ELSE data \o [i \in 1..(pos - Len(data)) |-> 0]

\* io.BytesIO: read(size), write(b), seek(offset), tell() and close() of the
\* underlying stream s = [data, pos, closed]
BytesIOCall(s, op, arg) ==
    IF s.closed THEN Result(s, <<>>, "ValueError")
    ELSE CASE op = "read" ->
                LET rest == From(s.data, s.pos)
                    got == IF arg < 0 \/ arg >= Len(rest) THEN rest ELSE SubSeq(rest, 1, arg)
                IN  Result([s EXCEPT !.pos = s.pos + Len(got)], got, "none")
           [] op = "write" ->
                Result([s EXCEPT !.data = WriteAt(Padded(s.data, s.pos), s.pos, arg),
                                 !.pos = s.pos + Len(arg)],
                       Len(arg), "none")
           [] op = "seek" ->
                IF arg < 0 THEN Result(s, <<>>, "ValueError")
                ELSE Result([s EXCEPT !.pos = arg], arg, "none")
           [] op = "tell" -> Result(s, s.pos, "none")

\* CloseProtectedStream.__init__ for an io.IOBase stream
CloseProtectedStream(underlying) ==
    [_stream |-> underlying, _closed |-> underlying.closed]

\* a close() that is forwarded to the underlying stream
CpsCloseForwarded(w) ==
    [w EXCEPT !._closed = TRUE, !._stream.closed = TRUE]

\* CloseProtectedStream.close
CpsClose(w) == [w EXCEPT !._closed = TRUE]

\* CloseProtectedStream.closed
CpsClosed(w) == w._closed

\* CloseProtectedStream.read, write, seek and tell
CpsCall(w, op, arg) ==
    IF w._closed THEN Result(w, <<>>, "ValueError")
    ELSE LET r == BytesIOCall(w._stream, op, arg)
         IN  Result([w EXCEPT !._stream = r.s], r.ret, r.exc)

\* the underlying streams that are wrapped
CpsUnderlying ==
    {s \in [data : Payloads, pos : 0..MaxLen, closed : BOOLEAN] : s.pos <= Len(s.data)}

\* the arguments of the calls: read sizes, written bytes, seek offsets
CpsArgs(op) ==
    CASE op = "read" -> {-1, 0, 1}
      [] op = "write" -> Payloads
      [] op = "seek" -> 0..(MaxLen + 1)
      [] op = "tell" -> {0}

CpsOp(op, arg, ret, exc) == [ret |-> ret, exc |-> exc, op |-> op, arg |-> arg]

CpsInit ==
    /\ fs = NewDir
    /\ front = NewDir
    /\ back = NewDir
    /\ kinds = [fs |-> "mem", front |-> "mem", back |-> "mem"]
    /\ calls = <<>>
    /\ threads = <<>>
    /\ heap = <<>>
    /\ instances = <<>>
    /\ remote = <<>>
    /\ \E s \in CpsUnderlying : stream = CloseProtectedStream(s)
    /\ last = CpsOp("none", 0, <<>>, "none")

CpsRest == <<fs, front, back, kinds, calls, threads, heap, instances, remote>>

\* wrapper.read(size), wrapper.write(b), wrapper.seek(offset), wrapper.tell()
CpsCallAny ==
    \E op \in {"read", "write", "seek", "tell"} : \E arg \in CpsArgs(op) :
        LET r == CpsCall(stream, op, arg)
        IN  /\ op = "write" => stream._stream.pos + Len(arg) <= MaxLen + 1
            /\ stream' = r.s
            /\ last' = CpsOp(op, arg, r.ret, r.exc)
            /\ UNCHANGED CpsRest

\* wrapper.close()
CpsCallClose ==
    /\ stream' = CpsClose(stream)
    /\ last' = CpsOp("close", 0, <<>>, "none")
    /\ UNCHANGED CpsRest

\* the owner of the underlying stream closes it
CpsOwnerCloses ==
    /\ ~stream._stream.closed
    /\ stream' = [stream EXCEPT !._stream.closed = TRUE]
    /\ last' = CpsOp("owner", 0, <<>>, "none")
    /\ UNCHANGED CpsRest

CpsNext == CpsCallAny \/ CpsCallClose \/ CpsOwnerCloses

SpecCps == CpsInit /\ [][CpsNext]_vars

C32_CloseStep ==
    last'.op = "close"
    => /\ stream'._stream = stream._stream
       /\ CpsClosed(stream')
       /\ CpsClosed(stream) => stream' = stream

C32_CallStep ==
    last'.op \in {"read", "write", "seek", "tell"}
    => IF CpsClosed(stream)
       THEN /\ last'.exc = "ValueError"
            /\ stream' = stream
       ELSE LET r == BytesIOCall(stream._stream, last'.op, last'.arg)
            IN  /\ stream'._stream = r.s
                /\ last'.ret = r.ret
                /\ last'.exc = r.exc
                /\ ~CpsClosed(stream')

\* C32: close() of a CloseProtectedStream sets the wrapper's flag and leaves
\* the underlying stream as it was, open and with its bytes and position; a
\* read, write, seek or tell before close() does to the underlying stream and
\* returns what the underlying stream's own method does, and after close() it
\* raises ValueError and leaves everything alone; closed stays true once it
\* is true, and a second close() changes nothing
C32_CloseProtected ==
    [][/\ C32_CloseStep
       /\ C32_CallStep
       /\ CpsClosed(stream) => CpsClosed(stream')]_vars

\* a read after close() raised while the underlying stream is open and holds
\* the bytes written through the wrapper before
C32_Witness ==
    /\ last.op = "read"
    /\ last.exc = "ValueError"
    /\ CpsClosed(stream)
    /\ ~stream._stream.closed
    /\ stream._stream.data = <<0, 1, 2>>

-----------------------------------------------------------------------------
(* util.chunkedByteStreamPipe, one read of the input at a time              *)

\* the largest amount a caller asks for
MaxAmount == 3
\* the largest chunkSize a caller passes
MaxChunk == 2

\* inStream.read(n) that delivers k bytes
ShortRead(s, k) ==
    [stream |-> [s EXCEPT !.pos = s.pos + k], ret |-> SubSeq(s.data, s.pos + 1, s.pos + k)]

\* the numbers of bytes inStream.read(n) may deliver: none at the end of the
\* input, and otherwise at least one byte and at most n and what is left
ReadLengths(s, n) ==
    LET left == Len(s.data) - s.pos
    IN  IF left = 0 THEN {0} ELSE 1..(IF n < left THEN n ELSE left)

\* the input streams: some bytes and a position in them
PipeInputs ==
    {s \in [data : {Prefix(n) : n \in 0..(MaxLen + 1)}, pos : 0..1, seekable : BOOLEAN] :
        s.pos <= Len(s.data)}

\* the output streams: empty, or holding bytes that are written over
PipeOutputs == {NoStream, [data |-> <<9, 9>>, pos |-> 1, seekable |-> TRUE]}

PipeFrame(pc, amount, chunkSize, readAmount, asked, inStream, outStream) ==
    [inStream |-> inStream, outStream |-> outStream, pc |-> pc, amount |-> amount,
     chunkSize |-> chunkSize, readAmount |-> readAmount, asked |-> asked]

PipeInit ==
    /\ fs = NewDir
    /\ front = NewDir
    /\ back = NewDir
    /\ kinds = [fs |-> "mem", front |-> "mem", back |-> "mem"]
    /\ calls = <<>>
    /\ threads = <<>>
    /\ heap = <<>>
    /\ instances = <<>>
    /\ remote = <<>>
    /\ stream = [inStream |-> NoStream, outStream |-> NoStream]
    /\ last = PipeFrame("done", 0, 1, 0, 0, NoStream, NoStream)

PipeRest == <<fs, front, back, kinds, calls, threads, heap, instances, remote>>

\* a loop that never counts down what is left to read
PipeCountDownNever(amount, readAmount, chunk) == readAmount

\* if amount > 0: readAmount -= len(chunk)
PipeCountDown(amount, readAmount, chunk) ==
    IF amount > 0 THEN readAmount - Len(chunk) ELSE readAmount

\* chunkedByteStreamPipe(inStream, outStream, amount, chunkSize) up to the
\* loop: readAmount is chunkSize for a negative amount and amount otherwise
PipeCall ==
    /\ last.pc = "done"
    /\ \E inStream \in PipeInputs, outStream \in PipeOutputs,
          amount \in (-1)..MaxAmount, chunkSize \in 1..MaxChunk :
        /\ stream' = [inStream |-> inStream, outStream |-> outStream]
        /\ last' = PipeFrame("while", amount, chunkSize,
                             IF amount < 0 THEN chunkSize ELSE amount, 0,
                             inStream, outStream)
    /\ UNCHANGED PipeRest

\* one turn of the loop: read, leave on an empty chunk, write, count down
PipeTurn ==
    /\ last.pc = "while"
    /\ last.readAmount > 0
    /\ \E k \in ReadLengths(stream.inStream, last.readAmount) :
        LET read == ShortRead(stream.inStream, k)
        IN  IF read.ret = <<>>
            THEN /\ stream' = [stream EXCEPT !.inStream = read.stream]
                 /\ last' = [last EXCEPT !.pc = "done", !.asked = last.readAmount]
            ELSE /\ stream' = [inStream |-> read.stream,
                               outStream |-> StreamWrite(stream.outStream, read.ret)]
                 /\ last' = [last EXCEPT
                        !.asked = last.readAmount,
                        !.readAmount = PipeCountDown(last.amount, @, read.ret)]
    /\ UNCHANGED PipeRest

\* the loop's condition fails: the function returns
PipeReturn ==
    /\ last.pc = "while"
    /\ last.readAmount <= 0
    /\ last' = [last EXCEPT !.pc = "done"]
    /\ UNCHANGED <<stream, PipeRest>>

PipeNext == PipeCall \/ PipeTurn \/ PipeReturn

SpecPipe == PipeInit /\ [][PipeNext]_vars

\* the loop is scheduled as long as the call has not returned
SpecPipeFair == SpecPipe /\ WF_vars(PipeTurn \/ PipeReturn)

\* what the call is to move: the bytes of the input from its position, all
\* of them for a negative amount and the first amount of them otherwise
PipeExpected ==
    LET rest == From(last.inStream.data, last.inStream.pos)
    IN  IF last.amount < 0 \/ last.amount >= Len(rest) THEN rest
        ELSE SubSeq(rest, 1, last.amount)

\* C33 (result): when chunkedByteStreamPipe has returned, the output holds
\* what a single write of the first min(amount, remaining) bytes of the
\* input (all remaining bytes for a negative amount) leaves in it, whatever
\* lengths the reads delivered, for every chunkSize of at least 1
C33_PipeWrites ==
    last.pc = "done" => stream.outStream = StreamWrite(last.outStream, PipeExpected)

\* C33 (termination): every call of chunkedByteStreamPipe returns
C33_PipeTerminates == (last.pc = "while") ~> (last.pc = "done")

\* C33: chunkedByteStreamPipe returns for every input and every pattern of
\* short reads, and has then written exactly the first min(amount, remaining)
\* bytes of the input, all remaining bytes for a negative amount
C33_Pipe == []C33_PipeWrites /\ C33_PipeTerminates

\* a call with an amount below what the input holds returned after reads
\* that each delivered one byte
C33_Witness ==
    /\ last.pc = "done"
    /\ last.amount = 2
    /\ last.asked = 1
    /\ Len(From(last.inStream.data, last.inStream.pos)) = 3
    /\ stream.outStream.data = <<1, 2>>

\* C34: chunkedByteStreamPipe never asks the input for more than chunkSize
\* bytes in one read
C34_ReadAtMostChunk == last.asked <= last.chunkSize

-----------------------------------------------------------------------------
(* CachedFileSystem: the front against the back *)

\* C35: around a back that does not change, every file the front of a
\* CachedFileSystem holds is a file of the back with the same bytes, and a
\* get that returns gives the bytes of the back's file, as many as getsize
\* reports
C35_FrontMirrorsBack ==
    \A path \in PairPaths :
        /\ FsIsfile(kinds.front, front, path)
           => Holds(kinds.back, back, path, FsGet(kinds.front, front, path).ret)
        /\ LET got == CachedGet(kinds.front, kinds.back, front, back, path)
           IN  got.exc = "none"
               => /\ got.ret = FsGet(kinds.back, back, path).ret
                  /\ Len(got.ret) = CachedGetsize(kinds.front, kinds.back, front, back, path).ret

-----------------------------------------------------------------------------
(* CloningFileSystem: a front and a back that only the composite changes    *)

CloneOnlyNext ==
    \E path \in PairPaths :
        \/ \E data \in Contents : CloneSet(path, Bytes(data))
        \/ \E s \in SourceStreams : CloneSet(path, AsContent(s))
        \/ \E s \in TargetStreams : CloneGetInto(path, s)
        \/ CloneGet(path)
        \/ CloneRm(path)

SpecCloningOnly == CloneInit /\ [][CloneOnlyNext]_vars

\* C36: when only the composite changes the front and the back of a
\* CloningFileSystem, starting from an empty front and an empty back, every
\* file of the front is a file of the back with the same bytes, also after
\* operations that raised
C36_FrontWithinBack ==
    \A path \in PairPaths :
        FsIsfile(kinds.front, front, path)
        => Holds(kinds.back, back, path, FsGet(kinds.front, front, path).ret)

-----------------------------------------------------------------------------
(* InMemFileSystem.set at the path of a directory *)

C38_SetStep ==
    (last'.op = "set" /\ InMemIsdir(fs, last'.path))
    => /\ last'.exc # "none"
       /\ fs' = fs

\* C38: a set of an InMemFileSystem at a path that is a directory raises and
\* leaves the directory and everything below it as it was
C38_SetKeepsDirectory == [][C38_SetStep]_vars

-----------------------------------------------------------------------------
(* FtpFileSystem: the client after a _connect that failed *)

\* C39: after a getClient whose _connect failed the instance holds no
\* client, and the client the instance holds is never one without a
\* connection, so that the next getClient connects anew
C39_NoUnconnectedClient ==
    /\ (last.op = "getClient" /\ last.connectFault # "none" /\ last.exc # "none")
       => remote.client = 0
    /\ remote.client # 0 => remote.connected

-----------------------------------------------------------------------------
(* WriteOnceFileSystem.set called by several threads: the exists check and  *)
(* the set of the inner filesystem are two steps                            *)

OnceThreadsInit ==
    /\ heap = <<>>
    /\ instances = <<>>
    /\ remote = <<>>
    /\ calls = <<>>
    /\ kinds \in {[fs |-> k, front |-> "mem", back |-> "mem"] : k \in Kinds}
    /\ fs = NewDir
    /\ front = NewDir
    /\ back = NewDir
    /\ stream = NoStream
    /\ last = NoOp
    /\ threads = [t \in ThreadIds |-> Thread("idle", <<>>, <<>>, <<>>, "none")]

\* the bytes the threads write: v1 and v2
OnceContents == {<<1>>, <<2>>}

OnceThreadsRest == <<heap, instances, remote, calls, kinds, front, back, stream, last>>

\* a thread calls set(path, data)
OnceThreadCall(t, path, data) ==
    /\ threads[t].pc \in {"idle", "returned", "raised"}
    /\ threads' = [threads EXCEPT ![t] = Thread("exists", path, data, <<>>, "none")]
    /\ UNCHANGED <<fs, OnceThreadsRest>>

\* if self.filesystem.exists(path): raise OSError
OnceThreadExists(t) ==
    /\ threads[t].pc = "exists"
    /\ threads' = [threads EXCEPT ![t] =
            IF WriteOnceExists(kinds.fs, fs, threads[t].path)
            THEN [@ EXCEPT !.pc = "raised", !.exc = "OSError"]
            ELSE [@ EXCEPT !.pc = "set"]]
    /\ UNCHANGED <<fs, OnceThreadsRest>>

\* else: self.filesystem.set(path, content)
OnceThreadSet(t) ==
    /\ threads[t].pc = "set"
    /\ LET r == FsSet(kinds.fs, fs, threads[t].path, Bytes(threads[t].data))
       IN  /\ fs' = r.tree
           /\ threads' = [threads EXCEPT ![t] =
                    [@ EXCEPT !.pc = IF r.exc = "none" THEN "returned" ELSE "raised",
                              !.exc = r.exc]]
    /\ UNCHANGED OnceThreadsRest

OnceThreadsNext ==
    \E t \in ThreadIds :
        \/ \E path \in ThreadPaths, data \in OnceContents : OnceThreadCall(t, path, data)
        \/ OnceThreadExists(t)
        \/ OnceThreadSet(t)

SpecOnceThreads == OnceThreadsInit /\ [][OnceThreadsNext]_vars

\* no two threads have both returned from a set of the same path
C37_AtMostOne ==
    \A t1 \in ThreadIds, t2 \in ThreadIds :
        (/\ t1 # t2
         /\ threads[t1].pc = "returned" /\ threads[t2].pc = "returned")
        => threads[t1].path # threads[t2].path

\* a file that can be read keeps its bytes
C37_KeepStep ==
    \A path \in ThreadPaths :
        FsGet(kinds.fs, fs, path).exc = "none"
        => FsGet(kinds.fs, fs', path) = FsGet(kinds.fs, fs, path)

\* C37: of the sets of one path that threads run through a
\* WriteOnceFileSystem at most one returns, and a file that can be read
\* never changes, however the exists checks and the inner sets interleave
C37_ConcurrentSet == []C37_AtMostOne /\ [][C37_KeepStep]_vars

====
